---------------------------- MODULE Spec2Model ----------------------------
(***************************************************************************)
(* Model of the SageForge backtest front end: the page controller          *)
(* (frontend/js/app.js), its UI handler and its API service.  The state    *)
(* is the controller's fields, the DOM fields the handlers read and write, *)
(* the interval tickers and timeouts that are pending, and the network     *)
(* requests in flight.  Every handler of the single-threaded event loop is *)
(* one action.                                                             *)
(***************************************************************************)
EXTENDS Integers, Sequences, FiniteSets, TLC

\* ------------------------------------------------------------------ bounds
\* Number of instruments the catalog collaborator serves.
NumStocks == 21
\* Instruments served to the page in the run-lifecycle specification.
SmallCatalog == 2
\* Runs (clicks on the start button) explored in one behaviour.
MaxRuns == 2
\* Catalog loads (sector-tab clicks, the load of init included) explored.
MaxLoads == 3
\* Report requests explored.
MaxReports == 1
\* Status requests one call of pollBacktestStatus may issue.
MaxPolls == 4
\* Trades in the longest answer explored: one more than a table of 25 rows.
MaxTrades == 26
\* Day number of "today".
TodayDay == 400

\* --------------------------------------------------------- program constants
MAX_STOCKS_SELECTION == 20
ProgressCap == 95
ProgressDone == 100
MinIncrement == 5
IncrementSpan == 15
BACKTEST_STATUS_POLL_INTERVAL == 2000

\* ------------------------------------------------------------------ helpers
Min(a, b) == IF a < b THEN a ELSE b

Range(s) == {s[k] : k \in 1..Len(s)}

NoDuplicates(s) == \A i, j \in 1..Len(s) : s[i] = s[j] => i = j

\* Array.prototype.indexOf: first position of x in s, 0 when absent (-1 in JS).
IndexOf(s, x) ==
    IF x \in Range(s) THEN CHOOSE k \in 1..Len(s) : s[k] = x /\ \A j \in 1..(k-1) : s[j] # x
    ELSE 0

\* Array.prototype.splice(index, 1)
RemoveAt(s, k) == SubSeq(s, 1, k-1) \o SubSeq(s, k+1, Len(s))

\* --------------------------------------------------------------- strings
\* Strings the handlers inspect are sequences of one-character strings.
UpperChars == <<"A", "B", "C", "D", "E">>
LowerChars == <<"a", "b", "c", "d", "e">>

\* String.prototype.toLowerCase on one character.
LowerChar(c) ==
    IF \E k \in 1..Len(UpperChars) : UpperChars[k] = c
    THEN LowerChars[CHOOSE k \in 1..Len(UpperChars) : UpperChars[k] = c]
    ELSE IF c = "X" THEN "x" ELSE IF c = "Z" THEN "z" ELSE c

\* Mutant: a comparison that keeps the case.
ToLowerCaseKeepsCase(s) == s

ToLowerCase(s) == [k \in 1..Len(s) |-> LowerChar(s[k])]

\* String.prototype.includes
Includes(s, q) == \E k \in 0..(Len(s) - Len(q)) : SubSeq(s, k+1, k+Len(q)) = q

RECURSIVE TrimLeft(_)
TrimLeft(s) == IF s # <<>> /\ Head(s) = " " THEN TrimLeft(Tail(s)) ELSE s

RECURSIVE TrimRight(_)
TrimRight(s) ==
    IF s # <<>> /\ s[Len(s)] = " " THEN TrimRight(SubSeq(s, 1, Len(s)-1)) ELSE s

\* String.prototype.trim
Trim(s) == TrimRight(TrimLeft(s))

\* --------------------------------------------------- catalog collaborator
SectorNames == <<"banking", "it", "pharma">>

\* The i-th instrument of the backend's catalog: { symbol, name, sector }.
Instrument(i) ==
    [symbol |-> <<UpperChars[(i \div 5) + 1], UpperChars[(i % 5) + 1]>>,
     name   |-> <<"X", LowerChars[(i % 3) + 1]>>,
     sector |-> SectorNames[(i % 3) + 1]]

\* GET /api/stocks?sector=<id|"all"> over a catalog of n instruments.
CatalogResponse(n, sector) ==
    SelectSeq([i \in 1..n |-> Instrument(i)],
              LAMBDA st : sector = "all" \/ st.sector = sector)

\* ------------------------------------------------------------ form fields
\* Number.parseFloat on the texts the parameter fields hold in this model;
\* numbers are kept in tenths of a percent, NaN is a value of its own.
NaN == [nan |-> TRUE, v |-> 0]

Num(tenths) == [nan |-> FALSE, v |-> tenths]

ParseFloat(text) ==
    CASE text = "3"   -> Num(30)
      [] text = "2"   -> Num(20)
      [] text = "2.5" -> Num(25)
      [] text = "0"   -> Num(0)
      [] text = "-1"  -> Num(-10)
      [] OTHER        -> NaN

\* x > 0 on a parsed number: every comparison with NaN is false.
GreaterThanZero(x) == ~x.nan /\ x.v > 0

\* A date field holds '' (0 here) or a day number.
NoDate == 0

\* ------------------------------------------------------------------ clock
\* new Date() is an instant: here the local calendar day and hour of the
\* browser's clock and the time zone it runs in.  Date.prototype.setDate
\* works on the local calendar and keeps the local hour;
\* Date.prototype.toISOString prints the instant in UTC.
Zones == {"utc", "dst", "west"}

\* Daylight saving time of the zone "dst" is in force on these days.
IsSummer(day) == (day % 365) \in 90..300

\* Hours the local clock of the zone is ahead of UTC on a day.
Offset(zone, day) ==
    CASE zone = "utc"  -> 0
      [] zone = "dst"  -> IF IsSummer(day) THEN 2 ELSE 1
      [] zone = "west" -> -5

\* toISOString().split('T')[0] of the instant that is `hour` o'clock of
\* local day `day` in the zone: the UTC calendar day.
ToISODate(zone, day, hour) ==
    LET utcHour == hour - Offset(zone, day)
    IN IF utcHour < 0 THEN day - 1 ELSE IF utcHour >= 24 THEN day + 1 ELSE day

\* startDate.setDate(startDate.getDate() - daysBack) on a copy of today.
SetDateBack(today, daysBack) == [today EXCEPT !.day = @ - daysBack]

\* ------------------------------------------------------------------ state
VARIABLES
    initPc,      \* position of SageForgeApp.init: "health", "stocks", "done"
    state,       \* SageForgeApp.state
    dom,         \* the form: date and parameter fields, the start button
    ui,          \* UIHandler: its elements, its ticker handle, browser timers
    api,         \* ApiService: lastBacktestResults
    runs,        \* one record per call of startBacktest: the request, the
                 \* interval it started, the result stored at that moment,
                 \* its fate
    loads,       \* catalog requests in flight
    loadCount,   \* catalog requests issued so far
    alertMsg,    \* text of the last alert() shown
    download,    \* the last file handed to the browser for download
    reports,     \* one record per report request of ApiService.downloadExcel
    poll         \* BacktestingAPI.pollBacktestStatus: the requests, timeouts
                 \* and onUpdate calls of one call of it

vars == <<initPc, state, dom, ui, api, runs, loads, loadCount, alertMsg, download,
          reports, poll>>

NoParams == [set |-> FALSE]
\* null: no stored result, an empty summary.
NoResults == [null |-> TRUE]
NoInterval == 0
NoAlert == [kind |-> "none"]
NoDownload == [kind |-> "none"]

\* The array a stored request's stocks field refers to: app.js stores a
\* reference to state.selectedStocks (line 278), which toggleStock mutates in
\* place and clearAllStocks replaces.
ParamsStocks(st) ==
    IF st.lastBacktestParams.stocksIsSelected THEN st.selectedStocks
    ELSE st.lastBacktestParams.stocks

\* --------------------------------------------------------- result payloads
\* The body of a 2xx answer after response.json(): a JSON object is a record,
\* a property the object lacks is a field the record lacks, an array is a
\* sequence.  Has is what `obj.f !== undefined` tells.
Has(obj, f) == f \in DOMAIN obj

\* `${obj.f}` in a template literal for a numeric property: the number's
\* text, or the text "undefined" when the object lacks the property.
InterpolateNumber(obj, f) ==
    IF Has(obj, f) THEN [num |-> obj[f]] ELSE [text |-> "undefined"]

\* `${obj.f}` for a string property.
InterpolateText(obj, f) ==
    IF Has(obj, f) THEN [text |-> obj[f]] ELSE [text |-> "undefined"]

\* The aggregates renderSummary interpolates.
SummaryFields ==
    {"target_hit_rate", "target_hit_count", "stop_loss_rate", "stop_loss_count",
     "eod_exit_count", "total_patterns", "avg_return"}

\* The properties of a trade the model carries, in the order the server
\* writes them.
TradeFields == <<"stock", "outcome", "points_gained", "minutes_held", "candles_held">>

\* UIHandler.renderSummary: the values of the four metric cards.
RenderSummary(results) == [f \in SummaryFields |-> InterpolateNumber(results, f)]

\* UIHandler.formatOutcome inside the row's template.
FormatOutcome(trade) ==
    IF ~Has(trade, "outcome") THEN [text |-> "undefined"]
    ELSE CASE trade.outcome = "target_hit" -> [text |-> "Target"]
           [] trade.outcome = "stop_loss"  -> [text |-> "Stop Loss"]
           [] trade.outcome = "eod_exit"   -> [text |-> "EOD Exit"]
           [] OTHER                        -> [text |-> trade.outcome]

\* UIHandler.getOutcomeClass
GetOutcomeClass(trade) ==
    IF ~Has(trade, "outcome") THEN "eod"
    ELSE CASE trade.outcome = "target_hit" -> "target"
           [] trade.outcome = "stop_loss"  -> "stoploss"
           [] OTHER                        -> "eod"

\* The row renderTradesTable's map callback makes of one trade.
TradeRow(trade) ==
    [stock |-> InterpolateText(trade, "stock"),
     points_gained |-> InterpolateNumber(trade, "points_gained"),
     minutes_held |-> InterpolateNumber(trade, "minutes_held"),
     candles_held |-> InterpolateNumber(trade, "candles_held"),
     outcomeClass |-> GetOutcomeClass(trade),
     outcome |-> FormatOutcome(trade)]

\* The single row shown for a missing or empty trade list.
NoTradesRow == [placeholder |-> "No trades found for the selected criteria"]

\* UIHandler.renderTradesTable(results.trades): the rows of the table body.
RenderTradesTable(results) ==
    IF ~Has(results, "trades") \/ results.trades = <<>> THEN <<NoTradesRow>>
    ELSE [k \in 1..Len(results.trades) |-> TradeRow(results.trades[k])]

\* JSON.stringify(obj, null, 2) of an object parsed from JSON: its own
\* properties, each as a name and a value, in the order of the object.
StringifyObject(obj, fields) ==
    LET present == SelectSeq(fields, LAMBDA f : Has(obj, f))
    IN [k \in 1..Len(present) |-> <<present[k], obj[present[k]]>>]

\* Mutant: a serialisation that keeps the first trade only.
JsonStringifyFirstTrade(data) ==
    [aggregates |-> [f \in DOMAIN data \ {"trades"} |-> data[f]],
     hasTrades |-> Has(data, "trades"),
     trades |-> IF Has(data, "trades") /\ data.trades # <<>>
                THEN <<StringifyObject(data.trades[1], TradeFields)>> ELSE <<>>]

\* ApiService.downloadJSON: JSON.stringify(data, null, 2), the text of the
\* file: the aggregates, and every element of trades in the array's order.
JsonStringify(data) ==
    [aggregates |-> [f \in DOMAIN data \ {"trades"} |-> data[f]],
     hasTrades |-> Has(data, "trades"),
     trades |-> IF Has(data, "trades")
                THEN [k \in 1..Len(data.trades) |->
                        StringifyObject(data.trades[k], TradeFields)]
                ELSE <<>>]

\* ------------------------------------------------- the presenter of main.js
\* main.js holds a second controller whose displayResults builds the page
\* itself; its table is modelled as a function of the trade list.
DisplayLimit == 25
MaxMinutesHeld == 45
MaxCandlesHeld == 3

\* `obj.f || fallback` for a numeric property: 0 is falsy as a missing one is.
OrNumber(obj, f, fallback) ==
    IF Has(obj, f) /\ obj[f] # 0 THEN obj[f] ELSE fallback

\* `(trade.outcome || 'unknown').replace('_', ' ')`
LegacyOutcome(trade) ==
    LET outcome == IF Has(trade, "outcome") /\ trade.outcome # ""
                   THEN trade.outcome ELSE "unknown"
    IN CASE outcome = "target_hit" -> "target hit"
         [] outcome = "stop_loss"  -> "stop loss"
         [] outcome = "eod_exit"   -> "eod exit"
         [] outcome = "time_exit"  -> "time exit"
         [] OTHER                  -> outcome

\* The row createTradesTable's forEach callback makes of one trade.
LegacyTradeRow(trade) ==
    [stock |-> InterpolateText(trade, "stock"),
     points_gained |-> [num |-> OrNumber(trade, "points_gained", 0)],
     minutes_held |-> [num |-> Min(OrNumber(trade, "minutes_held", 0), MaxMinutesHeld)],
     candles_held |-> [num |-> Min(OrNumber(trade, "candles_held", 1), MaxCandlesHeld)],
     outcome |-> [text |-> LegacyOutcome(trade)]]

\* No "Showing first 25 trades of M total trades" paragraph.
NoIndicator == [shown |-> 0, total |-> 0]

\* createTradesTable(trades): the rows of the table and the paragraph under it.
CreateTradesTable(trades) ==
    IF trades = <<>>
    THEN [rows |-> <<>>, indicator |-> NoIndicator]
    ELSE [rows |-> [k \in 1..Min(DisplayLimit, Len(trades)) |-> LegacyTradeRow(trades[k])],
          indicator |-> IF Len(trades) > DisplayLimit
                        THEN [shown |-> DisplayLimit, total |-> Len(trades)]
                        ELSE NoIndicator]

\* The summary cards of main.js's displayResults.
LegacySummaryCards(results) ==
    [profit_rate |-> [num |-> OrNumber(results, "profit_rate", 0)],
     safe_rate |-> [num |-> OrNumber(results, "safe_rate", 0)],
     stop_loss_rate |-> [num |-> OrNumber(results, "stop_loss_rate", 0)],
     total_patterns |-> [num |-> OrNumber(results, "total_patterns", 0)],
     target_percent |-> [num |-> OrNumber(results, "target_percent", 3)],
     stop_loss_percent |-> [num |-> OrNumber(results, "stop_loss_percent", 2)]]

\* The k-th trade of an answer: hold times grow with k past the 45 minutes
\* and 3 candles of the intraday constraint.
OutcomeOf(k) ==
    CASE k % 4 = 1 -> "target_hit"
      [] k % 4 = 2 -> "stop_loss"
      [] k % 4 = 3 -> "eod_exit"
      [] OTHER     -> "time_exit"

Trade(k) ==
    [stock |-> "TCS", outcome |-> OutcomeOf(k), points_gained |-> k - 2,
     minutes_held |-> 15 * k, candles_held |-> k]

\* An answer with every aggregate and n complete trades.
ResultOf(n) ==
    [target_hit_rate |-> 50, target_hit_count |-> n, stop_loss_rate |-> 25,
     stop_loss_count |-> 0, eod_exit_count |-> 1, total_patterns |-> n,
     avg_return |-> 1, trades |-> [k \in 1..n |-> Trade(k)]]

\* ------------------------------------------------------------ UIHandler
Messages ==
    <<"Connecting to Angel One API...", "Fetching historical data...",
      "Detecting hammer patterns...", "Simulating trades...",
      "Calculating results...", "Preparing report...">>

\* clearInterval(id)
ClearInterval(tickers, id) ==
    [k \in 1..Len(tickers) |->
        IF k = id THEN [tickers[k] EXCEPT !.active = FALSE] ELSE tickers[k]]

\* UIHandler.updateStatus
UpdateStatus(u, status, connected) ==
    [u EXCEPT !.apiStatus = IF connected THEN "Connected"
                            ELSE IF status = "error" THEN "Connection Error"
                            ELSE "Limited Mode"]

\* UIHandler.renderStocks: the symbols of the check boxes on the page.
RenderStocks(u, stocks) ==
    [u EXCEPT !.stockList = [k \in 1..Len(stocks) |-> stocks[k].symbol]]

\* UIHandler.showLoading(stockList)
ShowLoading(u) == [u EXCEPT !.stockList = <<>>]

UpdateSelectedCount(u, count) == [u EXCEPT !.selectedCount = count]

\* UIHandler.animateProgress: a new interval whose closure holds progress = 0.
AnimateProgress(u) ==
    [u EXCEPT !.tickers = Append(@, [progress |-> 0, active |-> TRUE]),
              !.progressInterval = Len(u.tickers) + 1]

\* UIHandler.showProgress
ShowProgress(u) ==
    AnimateProgress([u EXCEPT !.progressSection = TRUE, !.resultsSection = FALSE])

\* UIHandler.hideProgress
HideProgress(u) ==
    [u EXCEPT !.tickers = IF u.progressInterval # NoInterval
                          THEN ClearInterval(@, u.progressInterval) ELSE @,
              !.progressFill = ProgressDone,
              !.progressText = "Complete!",
              !.pendingHides = @ + 1]

\* Mutant: the tick without its cap.
TickProgressUncapped(progress, inc) == progress + inc

\* Mutant: a tick whose least increment is one point short.
TickProgressSlow(progress, inc) == Min(progress + inc - 1, ProgressCap)

\* The callback of one interval: the body of the arrow function of
\* animateProgress, with inc the integer part of Math.random() * 15 + 5.
TickProgress(progress, inc) == Min(progress + inc, ProgressCap)

\* Math.floor((progress / 100) * messages.length)
MessageIndex(progress) == (progress * Len(Messages)) \div 100

TickUi(u, t, inc) ==
    LET p == TickProgress(u.tickers[t].progress, inc)
        m == MessageIndex(p)
    IN [u EXCEPT !.tickers[t].progress = p,
                 !.tickers[t].active = ~(p >= ProgressCap),
                 !.progressFill = p,
                 !.progressText = IF m + 1 \in DOMAIN Messages THEN Messages[m + 1] ELSE @]

\* Mutant: the results section shown without rendering the new summary.
DisplayResultsNoSummary(u, results) ==
    [HideProgress(u) EXCEPT !.resultsSection = TRUE]

\* UIHandler.displayResults for a payload that is an object.
DisplayResults(u, results) ==
    [HideProgress(u) EXCEPT !.resultsSection = TRUE,
                            !.resultsSummary = RenderSummary(results),
                            !.resultsTableBody = RenderTradesTable(results)]

\* UIHandler.displayResults(null): hideProgress and the display of the section
\* happen, then renderSummary throws reading a property of null.
DisplayResultsThrows(u) ==
    [HideProgress(u) EXCEPT !.resultsSection = TRUE]

\* UIHandler.showError: the UI part; the alert is set by the caller's action.
ShowError(u) == HideProgress(u)

ErrorAlert(message) == [kind |-> "error", message |-> message]

PlainAlert(message) == [kind |-> "alert", message |-> message]

\* ------------------------------------------------------------ SageForgeApp
\* Mutant: isValid without the stop loss.
IsValidNoStopLoss(st, d) ==
    /\ Len(st.selectedStocks) > 0
    /\ GreaterThanZero(ParseFloat(d.targetPercent))
    /\ IF st.isCustomPeriod THEN d.startDate # NoDate /\ d.endDate # NoDate
       ELSE st.selectedPeriodMonths > 0

\* updateStartButton of main.js: the value of its isValid, which asks the
\* two parameter fields for a value that is not the empty text.
LegacyIsValid(st, d) ==
    LET hasStocks == Len(st.selectedStocks) > 0
        hasTarget == d.targetPercent # ""
        hasStopLoss == d.stopLossPercent # ""
        hasValidPeriod ==
            IF st.isCustomPeriod THEN d.startDate # NoDate /\ d.endDate # NoDate
            ELSE st.selectedPeriodMonths > 0
    IN hasStocks /\ hasTarget /\ hasStopLoss /\ hasValidPeriod

\* Mutant: a gate that is content with any text in the parameter fields.
IsValidAnyText(st, d) == LegacyIsValid(st, d)

\* updateStartButton: the value of isValid.
IsValid(st, d) ==
    LET hasStocks == Len(st.selectedStocks) > 0
        hasTarget == GreaterThanZero(ParseFloat(d.targetPercent))
        hasStopLoss == GreaterThanZero(ParseFloat(d.stopLossPercent))
        hasValidPeriod ==
            IF st.isCustomPeriod THEN d.startDate # NoDate /\ d.endDate # NoDate
            ELSE st.selectedPeriodMonths > 0
    IN hasStocks /\ hasTarget /\ hasStopLoss /\ hasValidPeriod

\* Mutant: the button left as it was.
UpdateStartButtonSkipped(st, d) == d

UpdateStartButton(st, d) == [d EXCEPT !.btnDisabled = ~IsValid(st, d)]

\* getDateRange: daysMap and its fallback.
DaysBack(months) ==
    CASE months = 1  -> 30
      [] months = 3  -> 90
      [] months = 6  -> 180
      [] months = 12 -> 365
      [] OTHER       -> 30

\* Mutant: a resolver that takes the date fields whenever both are filled,
\* whatever the check box says.
GetDateRangeDatesFirst(st, d, today) ==
    IF d.startDate # NoDate /\ d.endDate # NoDate
    THEN [start_date |-> d.startDate, end_date |-> d.endDate]
    ELSE LET startDate == SetDateBack(today, DaysBack(st.selectedPeriodMonths))
         IN [start_date |-> ToISODate(startDate.zone, startDate.day, startDate.hour),
             end_date |-> ToISODate(today.zone, today.day, today.hour)]

GetDateRange(st, d, today) ==
    IF st.isCustomPeriod
    THEN [start_date |-> d.startDate, end_date |-> d.endDate]
    ELSE LET startDate == SetDateBack(today, DaysBack(st.selectedPeriodMonths))
         IN [start_date |-> ToISODate(startDate.zone, startDate.day, startDate.hour),
             end_date |-> ToISODate(today.zone, today.day, today.hour)]

\* Mutant: a request for every stock on the page, with an hourly timeframe.
BuildParamsAllVisible(st, d, today) ==
    [stocks |-> [k \in 1..Len(st.filteredStocks) |-> st.filteredStocks[k].symbol],
     strategy |-> st.selectedStrategy,
     target_percent |-> ParseFloat(d.targetPercent),
     stop_loss_percent |-> ParseFloat(d.stopLossPercent),
     start_date |-> GetDateRange(st, d, today).start_date,
     end_date |-> GetDateRange(st, d, today).end_date,
     timeframe |-> "1hour"]

\* The params object startBacktest builds; stocks is the contents of the
\* array at this moment (what JSON.stringify puts in the request body).
BuildParams(st, d, today) ==
    LET dateRange == GetDateRange(st, d, today)
    IN [stocks |-> st.selectedStocks,
        strategy |-> st.selectedStrategy,
        target_percent |-> ParseFloat(d.targetPercent),
        stop_loss_percent |-> ParseFloat(d.stopLossPercent),
        start_date |-> dateRange.start_date,
        end_date |-> dateRange.end_date,
        timeframe |-> "15min"]

\* state.lastBacktestParams = params: the object, its stocks a reference.
StoreParams(st, params) ==
    [st EXCEPT !.lastBacktestParams =
        [set |-> TRUE, stocksIsSelected |-> TRUE, stocks |-> <<>>,
         strategy |-> params.strategy,
         target_percent |-> params.target_percent,
         stop_loss_percent |-> params.stop_loss_percent,
         start_date |-> params.start_date,
         end_date |-> params.end_date,
         timeframe |-> params.timeframe]]

\* searchStocks: the filtered list for a query.
SearchFilter(allStocks, query) ==
    IF Trim(query) = <<>> THEN allStocks
    ELSE LET lowerQuery == ToLowerCase(query)
         IN SelectSeq(allStocks,
                LAMBDA stock : \/ Includes(ToLowerCase(stock.symbol), lowerQuery)
                               \/ Includes(ToLowerCase(stock.name), lowerQuery))

\* Mutant: toggleStock that only ever pushes.
ToggleSelectionPushOnly(selected, symbol) == Append(selected, symbol)

\* toggleStock: the selection after the push or the splice.
ToggleSelection(selected, symbol) ==
    LET index == IndexOf(selected, symbol)
    IN IF index = 0 THEN Append(selected, symbol) ELSE RemoveAt(selected, index)

\* Mutant: a clear that drops only the symbols on the page.
ClearSelectionVisibleOnly(stocks, selected) ==
    SelectSeq(selected, LAMBDA sym : \A k \in 1..Len(stocks) : stocks[k].symbol # sym)

\* clearAllStocks: the new, empty array, whatever is filtered or selected.
ClearSelection(stocks, selected) == <<>>

\* Mutant: selectAllStocks without its includes test.
SelectAllSelectionUnchecked(stocks, selected) ==
    selected \o [k \in 1..Len(stocks) |-> stocks[k].symbol]

\* selectAllStocks: the forEach over the filtered list.
RECURSIVE SelectAllSelection(_, _)
SelectAllSelection(stocks, selected) ==
    IF stocks = <<>> THEN selected
    ELSE SelectAllSelection(Tail(stocks),
            IF Head(stocks).symbol \in Range(selected) THEN selected
            ELSE Append(selected, Head(stocks).symbol))

\* Mutant: equal dates let through.
DatesRejectedOnlyLater(startDate, endDate) ==
    startDate # NoDate /\ endDate # NoDate /\ startDate > endDate

\* validateDates: whether the two dates are rejected.
DatesRejected(startDate, endDate) ==
    startDate # NoDate /\ endDate # NoDate /\ startDate >= endDate

\* ------------------------------------------------------------- ApiService
NoResponse == [kind |-> "none", payload |-> NoResults, detail |-> ""]

OkResponse(payload) == [kind |-> "ok", payload |-> payload, detail |-> ""]

\* A 2xx response whose body is the JSON text null.
OkNullResponse == [kind |-> "okNull", payload |-> NoResults, detail |-> ""]

\* A non-2xx response whose JSON body carries detail ("" when it has none).
HttpError(detail) == [kind |-> "http", payload |-> NoResults, detail |-> detail]

\* A response, 2xx or not, whose body is not JSON: response.json() rejects.
BadBodyResponse == [kind |-> "badBody", payload |-> NoResults, detail |-> ""]

\* fetch rejects: no response at all.
TransportFailure == [kind |-> "transport", payload |-> NoResults, detail |-> ""]

IsFailure(resp) == resp.kind \in {"http", "badBody", "transport"}

\* ApiService.runBacktest: the message of the Error it throws for a failure.
RunBacktestError(resp) ==
    CASE resp.kind = "http" -> (IF resp.detail # "" THEN resp.detail ELSE "Backtest failed")
      [] resp.kind = "badBody" -> "Unexpected token < in JSON at position 0"
      [] resp.kind = "transport" -> "Failed to fetch"

\* startBacktest's catch: the message handed to showError.
SurfacedMessage(message) ==
    IF message # "" THEN message ELSE "Backtest failed. Please try again."

\* --------------------------------------------------------- BacktestingAPI
\* pollBacktestStatus has not been called: no request, no timeout, no call
\* of onUpdate.
InitPoll ==
    [called |-> FALSE, requests |-> 0, inFlight |-> 0, timers |-> <<>>,
     updates |-> <<>>]

\* A 2xx answer whose body is the JSON text null.
NullBody == [null |-> TRUE]

\* status.status === 'running', for an answer that is an object.
ReportsRunning(answer) == Has(answer, "status") /\ answer.status = "running"

\* The argument of onUpdate in the catch of poll.
FailedUpdate(message) == [status |-> "failed", message |-> message]

\* poll after `await this.getBacktestStatus(backtestId)` has returned
\* answer: onUpdate(status), then the test of status.status; threw tells
\* whether the caller's onUpdate throws.  An exception of onUpdate, and the
\* TypeError of reading status of null, end in the catch of poll.
PollAnswered(p, answer, threw) ==
    LET told == [p EXCEPT !.inFlight = @ - 1, !.updates = Append(@, answer)]
    IN IF threw
       THEN [told EXCEPT !.updates = Append(@, FailedUpdate("onUpdate failed"))]
       ELSE IF answer = NullBody
       THEN [told EXCEPT !.updates = Append(@,
                FailedUpdate("Cannot read properties of null (reading 'status')"))]
       ELSE IF ReportsRunning(answer)
       THEN [told EXCEPT !.timers = Append(@, BACKTEST_STATUS_POLL_INTERVAL)]
       ELSE told

\* poll when getBacktestStatus throws: the catch.
PollFailed(p, message) ==
    [p EXCEPT !.inFlight = @ - 1, !.updates = Append(@, FailedUpdate(message))]

\* poll up to its await: one status request.
PollRequest(p) == [p EXCEPT !.requests = @ + 1, !.inFlight = @ + 1]

\* ------------------------------------------------------------------- Init
InitState ==
    [allStocks |-> <<>>, filteredStocks |-> <<>>, selectedStocks |-> <<>>,
     selectedStrategy |-> "hammer", selectedPeriodMonths |-> 1,
     isCustomPeriod |-> FALSE, lastBacktestParams |-> NoParams]

InitUi ==
    [progressSection |-> FALSE, resultsSection |-> FALSE, progressFill |-> 0,
     progressText |-> "", progressInterval |-> NoInterval,
     resultsSummary |-> NoResults, resultsTableBody |-> <<>>, stockList |-> <<>>, selectedCount |-> 0,
     apiStatus |-> "", tickers |-> <<>>, pendingHides |-> 0,
     activeTab |-> "all"]

\* The constructor has run and init is suspended at its first await.  The
\* page's markup is not part of the scripts: the parameter fields hold their
\* usual defaults and the start button is disabled, which is also what
\* updateStartButton makes of the empty selection at the end of init; the
\* tab marked active is the one of the sector init loads.
Init ==
    /\ initPc = "health"
    /\ state = InitState
    /\ dom = [startDate |-> NoDate, endDate |-> NoDate,
              targetPercent |-> "3", stopLossPercent |-> "2",
              btnDisabled |-> TRUE]
    /\ ui = InitUi
    /\ api = [lastBacktestResults |-> NoResults]
    /\ runs = <<>>
    /\ loads = {}
    /\ loadCount = 0
    /\ alertMsg = NoAlert
    /\ download = NoDownload
    /\ reports = <<>>
    /\ poll = InitPoll

\* ---------------------------------------------------------------- actions
\* init after `await this.checkHealth()`: updateStatus, then loadStocks()
\* up to its await.
HealthDone(health) ==
    /\ initPc = "health"
    /\ initPc' = "stocks"
    /\ ui' = ShowLoading(UpdateStatus(ui, health.status, health.angel_one_connected))
    /\ loads' = loads \cup {[id |-> loadCount + 1, sector |-> "all", init |-> TRUE]}
    /\ loadCount' = loadCount + 1
    /\ UNCHANGED <<state, dom, api, runs, alertMsg, download, reports, poll>>

\* A click on a sector tab: the tab becomes the active one, then
\* loadStocks(sector) up to its await.
SectorTabClick(sector) ==
    /\ loadCount < MaxLoads - (IF initPc = "health" THEN 1 ELSE 0)
    /\ ui' = ShowLoading([ui EXCEPT !.activeTab = sector])
    /\ loads' = loads \cup {[id |-> loadCount + 1, sector |-> sector, init |-> FALSE]}
    /\ loadCount' = loadCount + 1
    /\ UNCHANGED <<initPc, state, dom, api, runs, alertMsg, download, reports, poll>>

\* init after `await this.loadStocks()`: setDateLimits, updateStartButton.
InitRest(l, st, d) == IF l.init THEN UpdateStartButton(st, d) ELSE d

\* The catalog answers the load l: loadStocks after its await.
LoadStocksOk(l, n) ==
    /\ l \in loads
    /\ loads' = loads \ {l}
    /\ LET stocks == CatalogResponse(n, l.sector)
       IN /\ state' = [state EXCEPT !.allStocks = stocks, !.filteredStocks = stocks]
          /\ ui' = RenderStocks(ui, stocks)
    /\ dom' = InitRest(l, state', dom)
    /\ initPc' = IF l.init THEN "done" ELSE initPc
    /\ UNCHANGED <<api, runs, loadCount, alertMsg, download, reports, poll>>

\* The load l fails: the catch of loadStocks.
LoadStocksFail(l) ==
    /\ l \in loads
    /\ loads' = loads \ {l}
    /\ ui' = ShowError(ui)
    /\ alertMsg' = ErrorAlert("Failed to load stocks. Using demo data.")
    /\ dom' = InitRest(l, state, dom)
    /\ initPc' = IF l.init THEN "done" ELSE initPc
    /\ UNCHANGED <<state, api, runs, loadCount, download, reports, poll>>

\* Mutant: a search that also drops the selected symbols it hides.
SearchStocksPruning(query) ==
    /\ state' = [state EXCEPT
          !.filteredStocks = SearchFilter(state.allStocks, query),
          !.selectedStocks = SelectSeq(@, LAMBDA sym :
              \E k \in 1..Len(SearchFilter(state.allStocks, query)) :
                  SearchFilter(state.allStocks, query)[k].symbol = sym)]
    /\ ui' = RenderStocks(ui, state'.filteredStocks)
    /\ UNCHANGED <<initPc, dom, api, runs, loads, loadCount, alertMsg, download, reports, poll>>

\* Input in the search box.
SearchStocks(query) ==
    /\ state' = [state EXCEPT !.filteredStocks = SearchFilter(state.allStocks, query)]
    /\ ui' = RenderStocks(ui, state'.filteredStocks)
    /\ UNCHANGED <<initPc, dom, api, runs, loads, loadCount, alertMsg, download, reports, poll>>

\* A change of a stock's check box: only the boxes on the page can change.
ToggleStock(symbol) ==
    /\ symbol \in Range(ui.stockList)
    /\ state' = [state EXCEPT !.selectedStocks = ToggleSelection(@, symbol)]
    /\ ui' = UpdateSelectedCount(ui, Len(state'.selectedStocks))
    /\ dom' = UpdateStartButton(state', dom)
    /\ UNCHANGED <<initPc, api, runs, loads, loadCount, alertMsg, download, reports, poll>>

SelectAllStocks ==
    /\ state' = [state EXCEPT
                    !.selectedStocks = SelectAllSelection(state.filteredStocks, @)]
    /\ ui' = UpdateSelectedCount(RenderStocks(ui, state.filteredStocks),
                                 Len(state'.selectedStocks))
    /\ dom' = UpdateStartButton(state', dom)
    /\ UNCHANGED <<initPc, api, runs, loads, loadCount, alertMsg, download, reports, poll>>

\* Mutant: a clear that leaves the start button as it was.
ClearAllStocksKeepsButton ==
    /\ state' = [state EXCEPT !.selectedStocks = <<>>]
    /\ ui' = UpdateSelectedCount(RenderStocks(ui, state.filteredStocks), 0)
    /\ UNCHANGED <<initPc, dom, api, runs, loads, loadCount, alertMsg, download, reports, poll>>

\* clearAllStocks: a new array; a stored request keeps the old one.
ClearAllStocks ==
    /\ state' = [state EXCEPT
          !.selectedStocks = ClearSelection(state.filteredStocks, @),
          !.lastBacktestParams =
              IF @.set /\ @.stocksIsSelected
              THEN [@ EXCEPT !.stocksIsSelected = FALSE, !.stocks = state.selectedStocks]
              ELSE @]
    /\ ui' = UpdateSelectedCount(RenderStocks(ui, state.filteredStocks), 0)
    /\ dom' = UpdateStartButton(state', dom)
    /\ UNCHANGED <<initPc, api, runs, loads, loadCount, alertMsg, download, reports, poll>>

StrategyCardClick(strategy) ==
    /\ state' = [state EXCEPT !.selectedStrategy = strategy]
    /\ dom' = UpdateStartButton(state', dom)
    /\ UNCHANGED <<initPc, ui, api, runs, loads, loadCount, alertMsg, download, reports, poll>>

PeriodCardClick(months) ==
    /\ state' = [state EXCEPT !.selectedPeriodMonths = months, !.isCustomPeriod = FALSE]
    /\ dom' = UpdateStartButton(state', dom)
    /\ UNCHANGED <<initPc, ui, api, runs, loads, loadCount, alertMsg, download, reports, poll>>

\* Mutant: a check box that goes back to the preset of one month when it
\* is unchecked.
CustomPeriodChangeResets(checked) ==
    /\ state' = [state EXCEPT !.isCustomPeriod = checked,
                              !.selectedPeriodMonths = IF checked THEN @ ELSE 1]
    /\ dom' = UpdateStartButton(state', dom)
    /\ UNCHANGED <<initPc, ui, api, runs, loads, loadCount, alertMsg, download, reports, poll>>

\* A change of the custom-period check box.
CustomPeriodChange(checked) ==
    /\ state' = [state EXCEPT !.isCustomPeriod = checked]
    /\ dom' = UpdateStartButton(state', dom)
    /\ UNCHANGED <<initPc, ui, api, runs, loads, loadCount, alertMsg, download, reports, poll>>

\* A change of a date field: validateDates, then updateStartButton.  The
\* two fields sit in customDates, which the handlers show only while the
\* custom period is checked.
DateChange(field, day) ==
    /\ state.isCustomPeriod
    /\ LET entered == IF field = "startDate" THEN [dom EXCEPT !.startDate = day]
                      ELSE [dom EXCEPT !.endDate = day]
           rejected == DatesRejected(entered.startDate, entered.endDate)
           validated == IF rejected THEN [entered EXCEPT !.endDate = NoDate] ELSE entered
       IN /\ dom' = UpdateStartButton(state, validated)
          /\ alertMsg' = IF rejected THEN PlainAlert("Start date must be before end date")
                         ELSE alertMsg
    /\ UNCHANGED <<initPc, state, ui, api, runs, loads, loadCount, download, reports, poll>>

\* Input in a parameter field.
ParamInput(field, text) ==
    /\ dom' = UpdateStartButton(state,
                IF field = "targetPercent" THEN [dom EXCEPT !.targetPercent = text]
                ELSE [dom EXCEPT !.stopLossPercent = text])
    /\ UNCHANGED <<initPc, state, ui, api, runs, loads, loadCount, alertMsg, download, reports, poll>>

\* startBacktest up to its await, whoever calls it: the method reads the
\* form as it is and tests nothing.
StartBacktestCall(today) ==
    /\ Len(runs) < MaxRuns
    /\ LET params == BuildParams(state, dom, today)
       IN /\ state' = StoreParams(state, params)
          /\ ui' = ShowProgress(ui)
          /\ runs' = Append(runs, [status |-> "running", body |-> params,
                                   ticker |-> ui'.progressInterval,
                                   resultBefore |-> api.lastBacktestResults,
                                   response |-> NoResponse, error |-> ""])
    /\ UNCHANGED <<initPc, dom, api, loads, loadCount, alertMsg, download, reports, poll>>

\* A click on the start button, which a disabled button does not deliver.
StartBacktest(today) == ~dom.btnDisabled /\ StartBacktestCall(today)

\* The interval t fires.
Tick(t, inc) ==
    /\ t \in DOMAIN ui.tickers
    /\ ui.tickers[t].active
    /\ ui' = TickUi(ui, t, inc)
    /\ UNCHANGED <<initPc, state, dom, api, runs, loads, loadCount, alertMsg, download, reports, poll>>

\* The timeout hideProgress set fires.
HideTimeout ==
    /\ ui.pendingHides > 0
    /\ ui' = [ui EXCEPT !.progressSection = FALSE, !.pendingHides = @ - 1]
    /\ UNCHANGED <<initPc, state, dom, api, runs, loads, loadCount, alertMsg, download, reports, poll>>

\* ApiService.runBacktest after its awaits: what it stores, and whether it
\* returns the payload or throws.
RunBacktest(a, resp) ==
    IF resp.kind \in {"ok", "okNull"}
    THEN [api |-> [a EXCEPT !.lastBacktestResults = resp.payload],
          threw |-> FALSE, message |-> ""]
    ELSE [api |-> a, threw |-> TRUE, message |-> RunBacktestError(resp)]

\* Run r's request is answered 2xx with an object: runBacktest stores and
\* returns it, startBacktest displays it.
BacktestSucceeds(r, payload) ==
    /\ r \in DOMAIN runs
    /\ runs[r].status = "running"
    /\ LET out == RunBacktest(api, OkResponse(payload))
       IN /\ ~out.threw
          /\ api' = out.api
          /\ ui' = DisplayResults(ui, out.api.lastBacktestResults)
    /\ runs' = [runs EXCEPT ![r].status = "succeeded", ![r].response = OkResponse(payload)]
    /\ UNCHANGED <<initPc, state, dom, loads, loadCount, alertMsg, download, reports, poll>>

\* Run r's request is answered 2xx with null: stored, then displayResults
\* throws and the catch of startBacktest shows the TypeError.
BacktestNullPayload(r) ==
    /\ r \in DOMAIN runs
    /\ runs[r].status = "running"
    /\ api' = RunBacktest(api, OkNullResponse).api
    /\ ui' = ShowError(DisplayResultsThrows(ui))
    /\ LET message == "Cannot read properties of null (reading 'target_hit_rate')"
       IN /\ alertMsg' = ErrorAlert(SurfacedMessage(message))
          /\ runs' = [runs EXCEPT ![r].status = "failed", ![r].response = OkNullResponse,
                                  ![r].error = message]
    /\ UNCHANGED <<initPc, state, dom, loads, loadCount, download, reports, poll>>

\* Run r's request fails (non-2xx, unreadable body, no response): runBacktest
\* throws, the catch of startBacktest shows the error.
BacktestFails(r, resp) ==
    /\ r \in DOMAIN runs
    /\ runs[r].status = "running"
    /\ IsFailure(resp)
    /\ LET out == RunBacktest(api, resp)
       IN /\ out.threw
          /\ api' = out.api
          /\ ui' = ShowError(ui)
          /\ alertMsg' = ErrorAlert(SurfacedMessage(out.message))
          /\ runs' = [runs EXCEPT ![r].status = "failed", ![r].response = resp,
                                  ![r].error = out.message]
    /\ UNCHANGED <<initPc, state, dom, loads, loadCount, download, reports, poll>>

\* Mutant: a file name that also tells how many stocks the request has.
FileNameWithStocks(params, extension) ==
    <<"backtest_", params.strategy, "_", Len(params.stocks), "_", params.start_date,
      "_to_", params.end_date, extension>>

\* The name both downloads give their file: the template literal
\* `backtest_${params.strategy}_${params.start_date}_to_${params.end_date}`
\* and the extension, as the parts it concatenates.
FileName(params, extension) ==
    <<"backtest_", params.strategy, "_", params.start_date, "_to_",
      params.end_date, extension>>

\* Mutant: a JSON download that tests the stored request, not the result.
DownloadJSONAfterAnyStart ==
    /\ IF ~state.lastBacktestParams.set
       THEN /\ alertMsg' = PlainAlert("Please run a backtest first")
            /\ UNCHANGED download
       ELSE /\ download' = [kind |-> "json",
                            data |-> JsonStringify(api.lastBacktestResults),
                            filename |-> FileName(state.lastBacktestParams, ".json")]
            /\ UNCHANGED alertMsg
    /\ UNCHANGED <<initPc, state, dom, ui, api, runs, loads, loadCount, reports, poll>>

\* A click on the JSON download button.
DownloadJSON ==
    /\ IF api.lastBacktestResults = NoResults
       THEN /\ alertMsg' = PlainAlert("Please run a backtest first")
            /\ UNCHANGED download
       ELSE /\ download' = [kind |-> "json",
                            data |-> JsonStringify(api.lastBacktestResults),
                            filename |-> FileName(state.lastBacktestParams, ".json")]
            /\ UNCHANGED alertMsg
    /\ UNCHANGED <<initPc, state, dom, ui, api, runs, loads, loadCount, reports, poll>>

\* The stored request as JSON.stringify reads it: its stocks are whatever
\* the array it refers to holds at that moment.
StoredRequest(st) ==
    [stocks |-> ParamsStocks(st),
     strategy |-> st.lastBacktestParams.strategy,
     target_percent |-> st.lastBacktestParams.target_percent,
     stop_loss_percent |-> st.lastBacktestParams.stop_loss_percent,
     start_date |-> st.lastBacktestParams.start_date,
     end_date |-> st.lastBacktestParams.end_date,
     timeframe |-> st.lastBacktestParams.timeframe]

\* A click on the Excel download button: downloadExcel up to the await of
\* ApiService.downloadExcel's fetch, whose body is the stored request.
DownloadExcel ==
    /\ IF ~state.lastBacktestParams.set
       THEN /\ alertMsg' = PlainAlert("Please run a backtest first")
            /\ UNCHANGED reports
       ELSE /\ Len(reports) < MaxReports
            /\ reports' = Append(reports, [status |-> "pending",
                                           body |-> StoredRequest(state)])
            /\ UNCHANGED alertMsg
    /\ UNCHANGED <<initPc, state, dom, ui, api, runs, loads, loadCount, download, poll>>

\* The report of request k arrives: the blob is handed to the browser under
\* the name made of the request's strategy and dates.
ReportArrives(k) ==
    /\ k \in DOMAIN reports
    /\ reports[k].status = "pending"
    /\ reports' = [reports EXCEPT ![k].status = "done"]
    /\ download' = [kind |-> "excel", data |-> [reportFor |-> reports[k].body],
                    filename |-> FileName(reports[k].body, ".xlsx")]
    /\ UNCHANGED <<initPc, state, dom, ui, api, runs, loads, loadCount, alertMsg, poll>>

\* The report endpoint answers non-2xx: ApiService.downloadExcel throws and
\* the catch of downloadExcel alerts.
ReportFails(k) ==
    /\ k \in DOMAIN reports
    /\ reports[k].status = "pending"
    /\ reports' = [reports EXCEPT ![k].status = "failed"]
    /\ alertMsg' = PlainAlert("Failed to download Excel report: Failed to generate Excel report")
    /\ UNCHANGED <<initPc, state, dom, ui, api, runs, loads, loadCount, download, poll>>

\* A call of pollBacktestStatus(backtestId, onUpdate): poll() up to its await.
PollBacktestStatus ==
    /\ ~poll.called
    /\ poll' = PollRequest([poll EXCEPT !.called = TRUE])
    /\ UNCHANGED <<initPc, state, dom, ui, api, runs, loads, loadCount, alertMsg,
                   download, reports>>

\* The status request in flight is answered 2xx with the body answer.
PollAnswer(answer, threw) ==
    /\ poll.inFlight > 0
    /\ poll' = PollAnswered(poll, answer, threw)
    /\ UNCHANGED <<initPc, state, dom, ui, api, runs, loads, loadCount, alertMsg,
                   download, reports>>

\* The status request in flight fails: request() throws for a non-2xx
\* answer, a body that is not JSON or no answer at all.
PollRequestFails(message) ==
    /\ poll.inFlight > 0
    /\ poll' = PollFailed(poll, message)
    /\ UNCHANGED <<initPc, state, dom, ui, api, runs, loads, loadCount, alertMsg,
                   download, reports>>

\* The timeout set by poll fires: poll() again, up to its await.
PollTimeout ==
    /\ poll.timers # <<>>
    /\ poll.requests < MaxPolls
    /\ poll' = PollRequest([poll EXCEPT !.timers = Tail(@)])
    /\ UNCHANGED <<initPc, state, dom, ui, api, runs, loads, loadCount, alertMsg,
                   download, reports>>

\* ----------------------------------------------------- the specifications
\* new Date() at noon of TodayDay, the browser's clock on UTC.
Noon == [day |-> TodayDay, hour |-> 12, zone |-> "utc"]

\* What ApiService.checkHealth resolves to.
HealthAnswers == {[status |-> "healthy", angel_one_connected |-> TRUE]}

\* Integer parts of Math.random() * 15 + 5 the ticks draw from.
Increments == {MinIncrement + k : k \in {0, 5, 10}}

\* Spec: the run lifecycle, its errors and the export, over a catalog of
\* SmallCatalog instruments.  The interval and timeout callbacks, which write
\* only the progress elements, are explored in SpecTicker.
Payloads == {ResultOf(0), ResultOf(1)}
Failures == {HttpError("Insufficient data"), HttpError(""), TransportFailure}

Next ==
    \/ \E health \in HealthAnswers : HealthDone(health)
    \/ \E l \in loads : LoadStocksOk(l, SmallCatalog)
    \/ \E l \in loads : LoadStocksFail(l)
    \/ \E symbol \in {Instrument(1).symbol} : ToggleStock(symbol)
    \/ \E months \in {3} : PeriodCardClick(months)
    \/ CustomPeriodChange(~state.isCustomPeriod)
    \/ \E text \in {"3", ""} : ParamInput("targetPercent", text)
    \/ \E day \in {TodayDay - 1} : DateChange("startDate", day)
    \/ \E day \in {TodayDay - 2, TodayDay} : DateChange("endDate", day)
    \/ StartBacktest(Noon)
    \/ \E r \in 1..MaxRuns, payload \in Payloads : BacktestSucceeds(r, payload)
    \/ \E r \in 1..MaxRuns : BacktestNullPayload(r)
    \/ \E r \in 1..MaxRuns, resp \in Failures : BacktestFails(r, resp)
    \/ DownloadJSON

Spec == Init /\ [][Next]_vars

\* SpecTicker: the progress indicator of overlapping and successive runs.
NextTicker ==
    \/ \E health \in HealthAnswers : HealthDone(health)
    \/ \E l \in loads : LoadStocksOk(l, SmallCatalog)
    \/ \E l \in loads : LoadStocksFail(l)
    \/ \E symbol \in {Instrument(1).symbol} : ToggleStock(symbol)
    \/ \E strategy \in {"engulfing"} : StrategyCardClick(strategy)
    \/ StartBacktest(Noon)
    \/ \E t \in 1..MaxRuns, inc \in Increments : Tick(t, inc)
    \/ HideTimeout
    \/ \E r \in 1..MaxRuns, payload \in {ResultOf(1)} : BacktestSucceeds(r, payload)
    \/ \E r \in 1..MaxRuns, resp \in {TransportFailure} : BacktestFails(r, resp)

SpecTicker == Init /\ [][NextTicker]_vars

\* SpecSel: the selection over the full catalog of NumStocks instruments.
ToggleSymbols == {Instrument(i).symbol : i \in {1, NumStocks}}
Queries == {<<>>, <<" ">>, <<"a">>, <<"x", "B">>, <<"Z">>}

NextSel ==
    \/ \E health \in HealthAnswers : HealthDone(health)
    \/ \E sector \in {"it"} : SectorTabClick(sector)
    \/ \E l \in loads : LoadStocksOk(l, NumStocks)
    \/ \E l \in loads : LoadStocksFail(l)
    \/ \E query \in Queries : SearchStocks(query)
    \/ \E symbol \in ToggleSymbols : ToggleStock(symbol)
    \/ SelectAllStocks
    \/ ClearAllStocks

SpecSel == Init /\ [][NextSel]_vars

\* SpecPeriod: the period of the request, preset or custom, for clocks in
\* several time zones.
PresetMonths == {1, 3, 6, 12, 2}

Todays ==
    {Noon,
     [day |-> TodayDay + 65, hour |-> 1, zone |-> "dst"],
     [day |-> TodayDay + 100, hour |-> 1, zone |-> "dst"],
     [day |-> TodayDay, hour |-> 21, zone |-> "west"]}

NextPeriod ==
    \/ \E health \in HealthAnswers : HealthDone(health)
    \/ \E l \in loads : LoadStocksOk(l, SmallCatalog)
    \/ \E l \in loads : LoadStocksFail(l)
    \/ \E symbol \in {Instrument(1).symbol} : ToggleStock(symbol)
    \/ \E months \in PresetMonths : PeriodCardClick(months)
    \/ CustomPeriodChange(~state.isCustomPeriod)
    \/ \E day \in {TodayDay - 1} : DateChange("startDate", day)
    \/ \E day \in {TodayDay - 2, TodayDay - 1, TodayDay} : DateChange("endDate", day)
    \/ \E today \in Todays : StartBacktest(today)

SpecPeriod == Init /\ [][NextPeriod]_vars

\* SpecForm: every handler that ends with updateStartButton, over the
\* texts and dates a user can enter.
TargetTexts == {"3", "2.5", "0", "-1", ""}
StopLossTexts == {"2", "0", ""}

NextForm ==
    \/ \E health \in HealthAnswers : HealthDone(health)
    \/ \E l \in loads : LoadStocksOk(l, SmallCatalog)
    \/ \E l \in loads : LoadStocksFail(l)
    \/ \E symbol \in {Instrument(1).symbol} : ToggleStock(symbol)
    \/ SelectAllStocks
    \/ ClearAllStocks
    \/ \E strategy \in {"engulfing"} : StrategyCardClick(strategy)
    \/ \E months \in {3, 0} : PeriodCardClick(months)
    \/ CustomPeriodChange(~state.isCustomPeriod)
    \/ \E day \in {TodayDay - 1} : DateChange("startDate", day)
    \/ \E day \in {TodayDay - 1, TodayDay} : DateChange("endDate", day)
    \/ \E text \in TargetTexts : ParamInput("targetPercent", text)
    \/ \E text \in StopLossTexts : ParamInput("stopLossPercent", text)

SpecForm == Init /\ [][NextForm]_vars

\* SpecRequest: the request startBacktest builds and stores, the changes of
\* the form after it, and the report export that forwards it.  startBacktest
\* is a method of the global window.app: the calls explored are the clicks on
\* the enabled button and the calls made while the form is invalid, one
\* request in a behaviour.
NextRequest ==
    \/ \E health \in HealthAnswers : HealthDone(health)
    \/ \E l \in loads : LoadStocksOk(l, SmallCatalog)
    \/ \E symbol \in {Instrument(i).symbol : i \in 1..SmallCatalog} : ToggleStock(symbol)
    \/ SelectAllStocks
    \/ ClearAllStocks
    \/ \E strategy \in {"hammer", "engulfing"} : StrategyCardClick(strategy)
    \/ \E months \in {1, 3} : PeriodCardClick(months)
    \/ \E text \in {"2.5", ""} : ParamInput("targetPercent", text)
    \/ runs = <<>> /\ StartBacktestCall(Noon)
    \/ DownloadExcel
    \/ \E k \in 1..MaxReports : ReportArrives(k)
    \/ \E k \in 1..MaxReports : ReportFails(k)

SpecRequest == Init /\ [][NextRequest]_vars

\* SpecResults: the answers of the backtest service, from a complete one of
\* MaxTrades trades to one that lacks every optional property, their display
\* and their export.
EmptyObject == <<>>

\* An answer without aggregates whose single trade has no property at all.
BareResult == [trades |-> <<EmptyObject>>]

\* Trades whose hold times lie outside the intraday constraint on both sides.
OddResult ==
    [total_patterns |-> 3,
     trades |-> <<[stock |-> "TCS", outcome |-> "target_hit", points_gained |-> 4,
                   minutes_held |-> -15, candles_held |-> 0],
                  [stock |-> "INFY", outcome |-> "", points_gained |-> 0,
                   minutes_held |-> 0, candles_held |-> -2],
                  [stock |-> "SBIN", minutes_held |-> 600, candles_held |-> 40]>>]

ResultPayloads == {ResultOf(MaxTrades), ResultOf(2), EmptyObject, BareResult, OddResult}

NextResults ==
    \/ \E health \in HealthAnswers : HealthDone(health)
    \/ \E l \in loads : LoadStocksOk(l, SmallCatalog)
    \/ \E symbol \in {Instrument(1).symbol} : ToggleStock(symbol)
    \/ StartBacktest(Noon)
    \/ \E r \in 1..MaxRuns, payload \in ResultPayloads : BacktestSucceeds(r, payload)
    \/ \E r \in 1..MaxRuns : BacktestNullPayload(r)
    \/ \E r \in 1..MaxRuns, resp \in {TransportFailure} : BacktestFails(r, resp)
    \/ DownloadJSON

SpecResults == Init /\ [][NextResults]_vars

\* SpecExport: the two exports, of successive requests that differ in
\* strategy and period.
NextExport ==
    \/ \E health \in HealthAnswers : HealthDone(health)
    \/ \E l \in loads : LoadStocksOk(l, SmallCatalog)
    \/ \E symbol \in {Instrument(1).symbol} : ToggleStock(symbol)
    \/ \E strategy \in {"engulfing"} : StrategyCardClick(strategy)
    \/ \E months \in {3} : PeriodCardClick(months)
    \/ StartBacktest(Noon)
    \/ \E r \in 1..MaxRuns, payload \in {ResultOf(1)} : BacktestSucceeds(r, payload)
    \/ DownloadJSON
    \/ DownloadExcel
    \/ \E k \in 1..MaxReports : ReportArrives(k)
    \/ \E k \in 1..MaxReports : ReportFails(k)

SpecExport == Init /\ [][NextExport]_vars

\* SpecInit: init and the health probe.  ApiService.checkHealth resolves to
\* the body of a 2xx answer, healthy or not, or to its error record when the
\* request fails; until it resolves init stays at its first await, and
\* nothing makes the probe answer.
ProbeAnswers ==
    {[status |-> "healthy", angel_one_connected |-> TRUE],
     [status |-> "healthy", angel_one_connected |-> FALSE],
     [status |-> "error", angel_one_connected |-> FALSE]}

NextInit ==
    \/ \E health \in ProbeAnswers : HealthDone(health)
    \/ \E sector \in {"it"} : SectorTabClick(sector)
    \/ \E l \in loads : LoadStocksOk(l, SmallCatalog)
    \/ \E l \in loads : LoadStocksFail(l)
    \/ \E symbol \in {Instrument(1).symbol} : ToggleStock(symbol)
    \/ \E text \in {"3", ""} : ParamInput("targetPercent", text)
    \/ StartBacktest(Noon)

SpecInit == Init /\ [][NextInit]_vars

\* SpecCatalog: catalog loads in flight together.  The tabs are clicked once
\* init has issued its own load, so that the sector requested last is the
\* one of the active tab, and every request is answered.
TabSectors == {"it", "pharma"}

NextCatalog ==
    \/ \E health \in HealthAnswers : HealthDone(health)
    \/ \E sector \in TabSectors : initPc # "health" /\ SectorTabClick(sector)
    \/ \E l \in loads : LoadStocksOk(l, SmallCatalog)
    \/ \E symbol \in {Instrument(i).symbol : i \in 1..SmallCatalog} : ToggleStock(symbol)

SpecCatalog == Init /\ [][NextCatalog]_vars

\* SpecSubmit: the clicks on the start button over everything the form can
\* hold: selections, presets, custom dates and the texts of the two
\* parameter fields.
NextSubmit ==
    \/ \E health \in HealthAnswers : HealthDone(health)
    \/ \E l \in loads : LoadStocksOk(l, SmallCatalog)
    \/ \E symbol \in {Instrument(1).symbol} : ToggleStock(symbol)
    \/ ClearAllStocks
    \/ \E months \in {3, 0} : PeriodCardClick(months)
    \/ CustomPeriodChange(~state.isCustomPeriod)
    \/ \E day \in {TodayDay - 1} : DateChange("startDate", day)
    \/ \E day \in {TodayDay - 1, TodayDay} : DateChange("endDate", day)
    \/ \E text \in TargetTexts : ParamInput("targetPercent", text)
    \/ \E text \in StopLossTexts : ParamInput("stopLossPercent", text)
    \/ StartBacktest(Noon)

SpecSubmit == Init /\ [][NextSubmit]_vars

\* SpecPoll: one call of pollBacktestStatus.  The status endpoint answers
\* with a status object, with an object that has no status, or with null;
\* the request may fail; the caller's onUpdate returns or throws.
StatusAnswers ==
    {[status |-> "running"], [status |-> "running", progress |-> 50],
     [status |-> "completed"], [status |-> "failed"], EmptyObject, NullBody}

RequestErrors == {"HTTP 500: Internal Server Error", "Failed to fetch"}

NextPoll ==
    \/ PollBacktestStatus
    \/ \E answer \in StatusAnswers, threw \in BOOLEAN : PollAnswer(answer, threw)
    \/ \E message \in RequestErrors : PollRequestFails(message)
    \/ PollTimeout

SpecPoll == Init /\ [][NextPoll]_vars

\* ------------------------------------------------------------ properties
Running(r) == runs[r].status = "running"

RunningRuns == {r \in DOMAIN runs : Running(r)}

\* Run r leaves Running in this step.
Completes(r) == r \in DOMAIN runs /\ Running(r) /\ runs'[r].status # "running"

\* Run r leaves Running in this step because its request failed.
FailsNow(r) == Completes(r) /\ IsFailure(runs'[r].response)

\* C1: single-flight: at most one run is Running at any time (a start while
\* a run is Running dispatches no second request).
C1_SingleFlight == Cardinality(RunningRuns) <= 1

\* C2: a start attempted while a run is Running leaves the ticker handle, the
\* tickers, the progress value and the stored request as they were.
C2_SecondStartLeavesTicker ==
    [][(RunningRuns # {} /\ StartBacktest(Noon)) =>
          /\ ui'.progressInterval = ui.progressInterval
          /\ ui'.tickers = ui.tickers
          /\ ui'.progressFill = ui.progressFill
          /\ state'.lastBacktestParams = state.lastBacktestParams]_vars

\* C3: the progress value of every ticker lies in 0..95, every tick raises
\* it by 5 to 20 points before the cap at 95, and no tick writes more than
\* 95 to the progress bar.
C3_ProgressCapped ==
    /\ [](\A t \in DOMAIN ui.tickers : ui.tickers[t].progress \in 0..ProgressCap)
    /\ [][\A t \in DOMAIN ui.tickers :
             ui'.tickers[t].progress # ui.tickers[t].progress =>
                /\ \E d \in MinIncrement..(MinIncrement + IncrementSpan) :
                      ui'.tickers[t].progress = Min(ui.tickers[t].progress + d, ProgressCap)
                /\ ui'.progressFill = ui'.tickers[t].progress
                /\ ui'.progressFill < ProgressDone]_vars

C3_Witness ==
    \E r \in RunningRuns :
        /\ ui.tickers[runs[r].ticker].progress = ProgressCap
        /\ ~ui.tickers[runs[r].ticker].active
        /\ ui.progressFill = ProgressCap

\* C4: when the network call of a run completes the progress bar is set to
\* 100 and the run's ticker is canceled; from then on no tick callback of
\* that run can fire.
C4_TickerCancelledOnCompletion ==
    /\ [][\A r \in DOMAIN runs : Completes(r) =>
              /\ ui'.progressFill = ProgressDone
              /\ ~ui'.tickers[runs[r].ticker].active]_vars
    /\ [](\A r \in DOMAIN runs : ~Running(r) => ~ui.tickers[runs[r].ticker].active)

\* C5: a run starts Running; the answer to its request moves it to exactly
\* one of Succeeded (a 2xx answer, whose payload is stored and displayed) or
\* Failed (an error is shown); a run that has left Running never changes.
C5_Lifecycle ==
    /\ [](\A r \in DOMAIN runs :
            /\ runs[r].status \in {"running", "succeeded", "failed"}
            /\ Running(r) <=> runs[r].response = NoResponse
            /\ runs[r].status = "succeeded" => runs[r].response.kind = "ok")
    /\ [][/\ \A r \in DOMAIN runs :
               /\ ~Running(r) => runs'[r] = runs[r]
               /\ (Completes(r) /\ runs'[r].response.kind = "ok") =>
                      /\ runs'[r].status = "succeeded"
                      /\ api'.lastBacktestResults = runs'[r].response.payload
                      /\ ui'.resultsSummary = RenderSummary(runs'[r].response.payload)
                      /\ ui'.resultsSection
               /\ (Completes(r) /\ runs'[r].response.kind # "ok") =>
                      /\ runs'[r].status = "failed"
                      /\ alertMsg' = ErrorAlert(runs'[r].error)
          /\ Len(runs') > Len(runs) =>
               /\ Len(runs') = Len(runs) + 1
               /\ runs'[Len(runs')].status = "running"]_vars

C5_Witness ==
    \E r1, r2 \in DOMAIN runs :
        /\ runs[r1].status = "succeeded"
        /\ ui.resultsSummary = RenderSummary(runs[r1].response.payload)
        /\ runs[r2].status = "failed"

\* C6: when the request of a run fails the run becomes Failed, its ticker is
\* canceled, and the message shown is the server's detail when the answer
\* carries one, the error's own message or the generic text otherwise.
C6_FailureHandling ==
    [][\A r \in DOMAIN runs : FailsNow(r) =>
          /\ runs'[r].status = "failed"
          /\ ~ui'.tickers[runs[r].ticker].active
          /\ alertMsg'.kind = "error"
          /\ LET resp == runs'[r].response
             IN IF resp.kind = "http" /\ resp.detail # ""
                THEN alertMsg'.message = resp.detail
                ELSE alertMsg'.message \in
                        {"Backtest failed", "Backtest failed. Please try again.",
                         "Failed to fetch"}]_vars

\* C7: when the request of a run fails, the result stored after the failure
\* is the one that was stored before that run was started, and what the JSON
\* export hands out is always the payload of a run that succeeded.
C7_FailureKeepsResult ==
    /\ [][\A r \in DOMAIN runs :
             FailsNow(r) => api'.lastBacktestResults = runs[r].resultBefore]_vars
    /\ [](download.kind = "json" =>
            \E r \in DOMAIN runs :
                /\ runs[r].status = "succeeded"
                /\ JsonStringify(runs[r].response.payload) = download.data)

\* The step of C7 on its own: the failure of a request does not write the
\* stored result, which changes only when a 2xx answer arrives.
C7_FailureStepKeepsResult ==
    [][/\ \A r \in DOMAIN runs :
             FailsNow(r) => api'.lastBacktestResults = api.lastBacktestResults
       /\ api' # api =>
             \E r \in DOMAIN runs :
                 Completes(r) /\ runs'[r].response.kind \in {"ok", "okNull"}]_vars

C7_Witness ==
    \E r1, r2 \in DOMAIN runs :
        /\ runs[r1].status = "succeeded"
        /\ runs[r2].status = "failed" /\ IsFailure(runs[r2].response)
        /\ api.lastBacktestResults = runs[r1].response.payload
        /\ download.kind = "json" /\ download.data = JsonStringify(runs[r1].response.payload)
        /\ download.filename = FileName(runs[r2].body, ".json")
        /\ runs[r1].body.start_date # runs[r2].body.start_date

\* C8: after any failure (an alert has been shown) a start is accepted
\* whenever the form is valid, and the request of every Running run can
\* still succeed.
C8_NoErrorFatal ==
    /\ (alertMsg.kind # "none" /\ IsValid(state, dom) /\ Len(runs) < MaxRuns)
          => ENABLED StartBacktest(Noon)
    /\ \A r \in RunningRuns : ENABLED BacktestSucceeds(r, ResultOf(1))

\* A run started after the failure of an earlier one is Running: its interval
\* is live, which a hideProgress after its start would have cleared.
C8_Witness ==
    \E r1, r2 \in DOMAIN runs :
        /\ r1 < r2
        /\ runs[r1].status = "failed" /\ IsFailure(runs[r1].response)
        /\ ~ui.tickers[runs[r1].ticker].active
        /\ Running(r2) /\ ui.tickers[runs[r2].ticker].active
        /\ alertMsg.kind = "error"

\* C9: no symbol appears more than once in the selection.
C9_SelectionUnique == NoDuplicates(state.selectedStocks)

\* Every instrument selected, the first of them by a toggle, and the catalog
\* since reloaded for one sector.
C9_Witness ==
    /\ Len(state.selectedStocks) = NumStocks
    /\ state.selectedStocks[1] = Instrument(NumStocks).symbol
    /\ Len(state.allStocks) \in 1..(NumStocks - 1)

\* C10: the selection never holds more than MAX_STOCKS_SELECTION symbols.
C10_SelectionBounded == Len(state.selectedStocks) <= MAX_STOCKS_SELECTION

\* C11: selectAll adds the visible symbols not yet selected up to the bound
\* of MAX_STOCKS_SELECTION; when they do not all fit, the selection is not
\* taken past the bound and an error is signalled.
C11_SelectAllCapacity ==
    [][SelectAllStocks =>
          LET all == SelectAllSelection(state.filteredStocks, state.selectedStocks)
          IN IF Len(all) <= MAX_STOCKS_SELECTION
             THEN state'.selectedStocks = all /\ alertMsg' = alertMsg
             ELSE /\ Len(state'.selectedStocks) <= MAX_STOCKS_SELECTION
                  /\ alertMsg'.kind = "error"]_vars

\* C12: toggling a symbol twice gives back the selection it started from:
\* the symbol is selected afterwards iff it was before, the membership of
\* every other symbol is unchanged, and one toggle flips exactly that symbol.
C12_ToggleInvolution ==
    /\ [](\A i \in 1..NumStocks :
            LET s == Instrument(i).symbol
                once == ToggleSelection(state.selectedStocks, s)
                twice == ToggleSelection(once, s)
            IN /\ Range(twice) = Range(state.selectedStocks)
               /\ Len(twice) = Len(state.selectedStocks)
               /\ (s \in Range(once)) # (s \in Range(state.selectedStocks))
               /\ Range(once) \ {s} = Range(state.selectedStocks) \ {s})
    /\ [][\A s \in ToggleSymbols : ToggleStock(s) =>
             /\ (s \in Range(state'.selectedStocks)) # (s \in Range(state.selectedStocks))
             /\ Range(ToggleSelection(state'.selectedStocks, s)) = Range(state.selectedStocks)
             /\ ui'.selectedCount = Len(state'.selectedStocks)]_vars

\* Every instrument is selected and the first of the catalog has ended up
\* last; another double toggle reorders the array and keeps the same symbols.
C12_Witness ==
    /\ Len(state.selectedStocks) = NumStocks
    /\ state.selectedStocks[NumStocks] = Instrument(1).symbol
    /\ ToggleSelection(ToggleSelection(state.selectedStocks, Instrument(2).symbol),
                       Instrument(2).symbol) # state.selectedStocks

\* C13: selectAll followed by clear leaves the selection empty, whatever was
\* selected before, whatever the catalog and the filter: every clear empties
\* the selection, and so does the clear of the state any selectAll leaves.
C13_SelectAllThenClear ==
    /\ [][ClearAllStocks =>
             /\ state'.selectedStocks = <<>>
             /\ ui'.selectedCount = 0
             /\ state'.filteredStocks = state.filteredStocks]_vars
    /\ [][SelectAllStocks =>
             ClearSelection(state'.filteredStocks, state'.selectedStocks) = <<>>]_vars

\* selectAll has run over a filtered list while a symbol that the filter
\* hides was selected: the state the clear of the claim starts from.
C13_Witness ==
    /\ state.filteredStocks # <<>>
    /\ Len(state.filteredStocks) < Len(state.allStocks)
    /\ \A k \in 1..Len(state.filteredStocks) :
          state.filteredStocks[k].symbol \in Range(state.selectedStocks)
    /\ \E sym \in Range(state.selectedStocks) :
          \A k \in 1..Len(state.filteredStocks) : state.filteredStocks[k].symbol # sym
    /\ ui.selectedCount = Len(state.selectedStocks)
    /\ ENABLED ClearAllStocks

\* C14: filtering never changes the selection: a search for any query, a
\* click on a sector tab and the arrival of the catalog it asked for leave
\* the selected symbols as they were, visible or not.
C14_FilterKeepsSelection ==
    [][(\/ \E query \in Queries : SearchStocks(query)
        \/ \E sector \in Range(SectorNames) : SectorTabClick(sector)
        \/ \E l \in loads : LoadStocksOk(l, NumStocks)
        \/ \E l \in loads : LoadStocksFail(l))
          => /\ state'.selectedStocks = state.selectedStocks
             /\ ui'.selectedCount = ui.selectedCount
             /\ dom'.btnDisabled = dom.btnDisabled]_vars

\* A search hides a selected symbol after the catalog was reloaded for one
\* sector: the symbol is still selected.
C14_Witness ==
    /\ Len(state.allStocks) \in 1..(NumStocks - 1)
    /\ Len(state.filteredStocks) < Len(state.allStocks)
    /\ ui.stockList = [k \in 1..Len(state.filteredStocks) |-> state.filteredStocks[k].symbol]
    /\ \E sym \in Range(state.selectedStocks) :
          /\ \E k \in 1..Len(state.allStocks) : state.allStocks[k].symbol = sym
          /\ sym \notin Range(ui.stockList)
    /\ \E sym \in Range(state.selectedStocks) :
          \A k \in 1..Len(state.allStocks) : state.allStocks[k].symbol # sym

\* text contains q, letters compared without regard to case.
ContainsIgnoringCase(text, q) ==
    \E k \in 0..(Len(text) - Len(q)) :
        \A j \in 1..Len(q) : LowerChar(text[k + j]) = LowerChar(q[j])

\* The catalog entries, in catalog order, whose symbol or name contains q.
MatchingStocks(allStocks, q) ==
    SelectSeq(allStocks, LAMBDA stock : \/ ContainsIgnoringCase(stock.symbol, q)
                                       \/ ContainsIgnoringCase(stock.name, q))

NewRequest == runs'[Len(runs')].body

\* C16: for the presets 1, 3, 6 and 12 and every today, the request of a
\* start carries end_date = today and start_date = today less 30, 90, 180
\* and 365 days; today is the calendar day toISOString gives the clock.
C16_PresetRange ==
    [][\A today \in Todays :
          (StartBacktest(today) /\ ~state.isCustomPeriod
             /\ state.selectedPeriodMonths \in {1, 3, 6, 12}) =>
          LET todayDate == ToISODate(today.zone, today.day, today.hour)
              lookback == CASE state.selectedPeriodMonths = 1  -> 30
                            [] state.selectedPeriodMonths = 3  -> 90
                            [] state.selectedPeriodMonths = 6  -> 180
                            [] state.selectedPeriodMonths = 12 -> 365
          IN /\ NewRequest.end_date = todayDate
             /\ NewRequest.start_date = todayDate - lookback]_vars

\* C16 with the clock on UTC, where the local calendar is the UTC calendar.
C16_PresetRangeUtc ==
    [][\A today \in Todays :
          (StartBacktest(today) /\ ~state.isCustomPeriod /\ today.zone = "utc"
             /\ state.selectedPeriodMonths \in {1, 3, 6, 12}) =>
          /\ NewRequest.end_date = today.day
          /\ NewRequest.start_date =
                today.day - (CASE state.selectedPeriodMonths = 1  -> 30
                               [] state.selectedPeriodMonths = 3  -> 90
                               [] state.selectedPeriodMonths = 6  -> 180
                               [] state.selectedPeriodMonths = 12 -> 365)]_vars

\* C17: a preset that is no key of the table is resolved as a lookback of 30
\* days: start_date = today less 30 days and end_date = today.
C17_UnknownPreset ==
    [][\A today \in Todays :
          (StartBacktest(today) /\ ~state.isCustomPeriod
             /\ state.selectedPeriodMonths \notin {1, 3, 6, 12}) =>
          LET todayDate == ToISODate(today.zone, today.day, today.hour)
          IN /\ NewRequest.end_date = todayDate
             /\ NewRequest.start_date = todayDate - 30]_vars

\* C17 with the clock on UTC.
C17_UnknownPresetUtc ==
    [][\A today \in Todays :
          (StartBacktest(today) /\ ~state.isCustomPeriod /\ today.zone = "utc"
             /\ state.selectedPeriodMonths \notin {1, 3, 6, 12}) =>
          /\ NewRequest.end_date = today.day
          /\ NewRequest.start_date = today.day - 30]_vars

\* A request for an unknown preset has been built from the clock on UTC.
C17_Witness ==
    /\ ~state.isCustomPeriod
    /\ state.selectedPeriodMonths = 2
    /\ runs # <<>>
    /\ runs[Len(runs)].body.end_date = TodayDay
    /\ runs[Len(runs)].body.start_date = TodayDay - 30

\* A request for the preset of 12 months has been built from the clock on UTC.
C16_Witness ==
    /\ ~state.isCustomPeriod
    /\ state.selectedPeriodMonths = 12
    /\ runs # <<>>
    /\ runs[Len(runs)].body.end_date = TodayDay
    /\ runs[Len(runs)].body.start_date = TodayDay - 365

\* The outcome C18 requires of a change of a date field, given the two dates
\* the form holds once the change is entered.
DateChangeOutcome(startDate, endDate) ==
    IF startDate # NoDate /\ endDate # NoDate /\ startDate >= endDate
    THEN /\ dom'.startDate = startDate
         /\ dom'.endDate = NoDate
         /\ alertMsg' = PlainAlert("Start date must be before end date")
         /\ dom'.btnDisabled
    ELSE /\ dom'.startDate = startDate
         /\ dom'.endDate = endDate
         /\ alertMsg' = alertMsg

\* C18: a custom period whose two dates are present with start >= end is
\* rejected: the end date is cleared, the user is told and the start button
\* is disabled; with start < end the dates are kept, and the request of a
\* start with the custom period carries exactly those two dates.
C18_CustomRange ==
    /\ [][\A day \in (TodayDay - 2)..TodayDay :
             /\ DateChange("startDate", day) => DateChangeOutcome(day, dom.endDate)
             /\ DateChange("endDate", day) => DateChangeOutcome(dom.startDate, day)]_vars
    /\ [](dom.startDate # NoDate /\ dom.endDate # NoDate => dom.startDate < dom.endDate)
    /\ [][\A today \in Todays : (StartBacktest(today) /\ state.isCustomPeriod) =>
             /\ NewRequest.start_date = dom.startDate
             /\ NewRequest.end_date = dom.endDate
             /\ NewRequest.start_date # NoDate
             /\ NewRequest.start_date < NewRequest.end_date]_vars

\* A request has carried the custom dates, and a later end date, equal to
\* the start date, has been rejected.
C18_Witness ==
    /\ state.isCustomPeriod
    /\ runs # <<>>
    /\ runs[Len(runs)].body.start_date = TodayDay - 1
    /\ runs[Len(runs)].body.end_date = TodayDay
    /\ dom.startDate = TodayDay - 1
    /\ dom.endDate = NoDate
    /\ alertMsg = PlainAlert("Start date must be before end date")
    /\ dom.btnDisabled

\* The rule of canSubmit as the specification states it, on the values the
\* form holds: a field that holds no number is not greater than zero.
CanSubmitStated ==
    LET target == ParseFloat(dom.targetPercent)
        stopLoss == ParseFloat(dom.stopLossPercent)
    IN /\ state.selectedStocks # <<>>
       /\ ~target.nan /\ ~(target.v <= 0)
       /\ ~stopLoss.nan /\ ~(stopLoss.v <= 0)
       /\ IF state.isCustomPeriod
          THEN /\ dom.startDate # NoDate
               /\ dom.endDate # NoDate
               /\ dom.startDate < dom.endDate
          ELSE ~(state.selectedPeriodMonths <= 0)

C20_ButtonFollowsCanSubmit == dom.btnDisabled <=> ~IsValid(state, dom)

\* The button is disabled after a clear that followed a valid form with an
\* edited target, another strategy and a custom period.
C20_Witness ==
    /\ dom.btnDisabled
    /\ state.selectedStocks = <<>>
    /\ ui.selectedCount = 0
    /\ ui.stockList # <<>>
    /\ state.selectedStrategy = "engulfing"
    /\ state.isCustomPeriod
    /\ dom.startDate = TodayDay - 1 /\ dom.endDate = TodayDay
    /\ dom.targetPercent = "2.5"
    /\ dom.stopLossPercent = "2"


\* C21: a request is built and dispatched only from a state in which
\* canSubmit holds: startBacktest called while the form is invalid builds no
\* request and dispatches nothing.
C21_BuildRejectsInvalid ==
    [][Len(runs') > Len(runs) => CanSubmitStated]_vars

\* The start button delivers its click only while canSubmit holds.
C21_ClickGated == ~dom.btnDisabled => CanSubmitStated

\* C22: the request built at a start equals the controller's state at that
\* moment: its stocks are the selected symbols in their order, its strategy
\* the selected card, its percentages the numbers in the two fields, its
\* dates the resolver's output for the period chosen (for the preset of one
\* month on the day TodayDay: TodayDay - 30 and TodayDay), its timeframe
\* "15min"; and that request is the one stored for the exports.
C22_RequestEqualsState ==
    [][Len(runs') > Len(runs) =>
          /\ NewRequest.stocks = state.selectedStocks
          /\ NewRequest.strategy = state.selectedStrategy
          /\ NewRequest.target_percent = ParseFloat(dom.targetPercent)
          /\ NewRequest.stop_loss_percent = ParseFloat(dom.stopLossPercent)
          /\ NewRequest.start_date = GetDateRange(state, dom, Noon).start_date
          /\ NewRequest.end_date = GetDateRange(state, dom, Noon).end_date
          /\ (~state.isCustomPeriod /\ state.selectedPeriodMonths = 1) =>
                /\ NewRequest.start_date = TodayDay - 30
                /\ NewRequest.end_date = TodayDay
          /\ NewRequest.timeframe = "15min"
          /\ StoredRequest(state') = NewRequest]_vars

\* The scenario: two stocks, hammer, 3 and 2 percent, the preset of one
\* month; the request built from it is Running.
C22_Witness ==
    /\ runs # <<>>
    /\ runs[1].body.stocks = <<Instrument(1).symbol, Instrument(2).symbol>>
    /\ runs[1].body.strategy = "hammer"
    /\ runs[1].body.target_percent = Num(30)
    /\ runs[1].body.stop_loss_percent = Num(20)
    /\ runs[1].body.start_date = TodayDay - 30
    /\ runs[1].body.end_date = TodayDay
    /\ runs[1].body.timeframe = "15min"

\* A request as the spec's DTO wants it: some stocks, positive percentages.
ValidRequest(req) ==
    /\ req.stocks # <<>>
    /\ GreaterThanZero(req.target_percent)
    /\ GreaterThanZero(req.stop_loss_percent)

\* C23: a request is immutable once built: whatever is toggled, selected,
\* cleared, clicked or typed after the start, the stored request (its stocks
\* list included) stays the request the last start dispatched, and the body
\* of every report request is the request of that run.  Only requests built
\* from a valid form are looked at.
C23_RequestImmutable ==
    /\ []((runs # <<>> /\ ValidRequest(runs[Len(runs)].body)) =>
            StoredRequest(state) = runs[Len(runs)].body)
    /\ [](\A k \in DOMAIN reports :
            (runs # <<>> /\ ValidRequest(runs[Len(runs)].body)) =>
                reports[k].body = runs[Len(runs)].body)

\* C23 for everything but the stocks list: strategy, percentages, dates and
\* timeframe of the stored request and of every report request are those of
\* the request dispatched.
C23_ScalarsImmutable ==
    LET Scalars(req) == [req EXCEPT !.stocks = <<>>]
    IN /\ runs # <<>> => Scalars(StoredRequest(state)) = Scalars(runs[Len(runs)].body)
       /\ \A k \in DOMAIN reports :
            runs # <<>> /\ Scalars(reports[k].body) = Scalars(runs[Len(runs)].body)

\* A report has been downloaded for a request whose strategy, preset and
\* target were changed on the form after the start.
C23_Witness ==
    /\ runs # <<>>
    /\ ValidRequest(runs[1].body)
    /\ download.kind = "excel"
    /\ download.data.reportFor.strategy = runs[1].body.strategy
    /\ state.selectedStrategy # runs[1].body.strategy
    /\ ParseFloat(dom.targetPercent) # runs[1].body.target_percent
    /\ state.selectedPeriodMonths = 3 /\ runs[1].body.start_date = TodayDay - 30

\* No run has succeeded so far.
NoRunSucceeded == \A r \in DOMAIN runs : runs[r].status # "succeeded"

\* C24: while no run has succeeded (none started, or every run started is
\* still Running or has failed) a JSON export is refused with the message
\* that there is no result and hands no file to the browser.
C24_NoResultNoExport ==
    /\ [](NoRunSucceeded => download.kind # "json")
    /\ [][(NoRunSucceeded /\ DownloadJSON) =>
             /\ alertMsg' = PlainAlert("Please run a backtest first")
             /\ download' = download]_vars

\* The export has just been refused with one run failed and one Running.
C24_Witness ==
    /\ \E r1, r2 \in DOMAIN runs :
          /\ runs[r1].status = "failed" /\ IsFailure(runs[r1].response)
          /\ runs[r2].status = "running"
    /\ alertMsg = PlainAlert("Please run a backtest first")
    /\ download = NoDownload

\* Run r gets its 2xx answer in this step.
SucceedsNow(r) == Completes(r) /\ runs'[r].status = "succeeded"

\* C25: the JSON exported is the result of the last run that succeeded, as
\* the server sent it: a success stores its payload, nothing else writes the
\* stored result (an answer of null empties it), and the file written holds
\* the stored result's aggregates and every one of its trades, in the
\* server's order, with the values of minutes_held and candles_held (and of
\* every other property) the server gave.
C25_ExportUnaltered ==
    /\ [][\A r \in DOMAIN runs :
             SucceedsNow(r) => api'.lastBacktestResults = runs'[r].response.payload]_vars
    /\ [][(\A r \in DOMAIN runs : ~SucceedsNow(r)) =>
             api'.lastBacktestResults \in {api.lastBacktestResults, NoResults}]_vars
    /\ [][(DownloadJSON /\ api.lastBacktestResults # NoResults) =>
             LET raw == api.lastBacktestResults
                 file == download'.data
             IN /\ download'.kind = "json"
                /\ file.aggregates = [f \in DOMAIN raw \ {"trades"} |-> raw[f]]
                /\ file.hasTrades = Has(raw, "trades")
                /\ Has(raw, "trades") =>
                     /\ Len(file.trades) = Len(raw.trades)
                     /\ \A k \in DOMAIN raw.trades :
                          /\ DOMAIN file.trades[k] = 1..Cardinality(DOMAIN raw.trades[k])
                          /\ \A i \in DOMAIN file.trades[k] :
                               /\ Has(raw.trades[k], file.trades[k][i][1])
                               /\ file.trades[k][i][2] = raw.trades[k][file.trades[k][i][1]]]_vars

\* The answer of MaxTrades trades has been displayed and exported: the file
\* holds its last trade with the hold times the server gave.
C25_Witness ==
    /\ download.kind = "json"
    /\ Len(download.data.trades) = MaxTrades
    /\ \E i \in DOMAIN download.data.trades[MaxTrades] :
          download.data.trades[MaxTrades][i] = <<"minutes_held", 15 * MaxTrades>>
    /\ \E i \in DOMAIN download.data.trades[MaxTrades] :
          download.data.trades[MaxTrades][i] = <<"candles_held", MaxTrades>>
    /\ ui.resultsTableBody # <<>>

\* C26: the name of an exported file is made of the strategy, the start date
\* and the end date of the request it is exported for, and of nothing else:
\* backtest_{strategy}_{start}_to_{end}.json for the JSON export of the
\* stored request, the same name ending in .xlsx for the report of the
\* request forwarded.
C26_FileNames ==
    /\ [][DownloadJSON /\ api.lastBacktestResults # NoResults =>
             download'.filename =
                 <<"backtest_", state.lastBacktestParams.strategy, "_",
                   state.lastBacktestParams.start_date, "_to_",
                   state.lastBacktestParams.end_date, ".json">>]_vars
    /\ [][\A k \in DOMAIN reports :
             (reports[k].status = "pending" /\ reports'[k].status = "done") =>
                 /\ download'.kind = "excel"
                 /\ download'.filename =
                      <<"backtest_", reports[k].body.strategy, "_",
                        reports[k].body.start_date, "_to_",
                        reports[k].body.end_date, ".xlsx">>]_vars

\* A report has been downloaded for a request of the engulfing strategy
\* over three months, after the form went on to another request.
C26_Witness ==
    /\ download.kind = "excel"
    /\ download.filename =
          <<"backtest_", "engulfing", "_", TodayDay - 90, "_to_", TodayDay, ".xlsx">>
    /\ Len(runs) = 2
    /\ runs[1].body.start_date # runs[2].body.start_date

\* The numeric properties of a trade the model carries.
NumericTradeFields == {"points_gained", "minutes_held", "candles_held"}

\* The trade list of an answer, empty when the answer has none.
TradesOf(results) == IF Has(results, "trades") THEN results.trades ELSE <<>>

\* C27: an answer that lacks optional properties is displayed without
\* failing, and in what is displayed every aggregate the answer lacks and
\* every numeric property a trade lacks reads 0, and the outcome of a trade
\* that has none reads unknown.
C27_DefaultsShown ==
    [][\A r \in DOMAIN runs : SucceedsNow(r) =>
          LET raw == runs'[r].response.payload
          IN /\ ui'.resultsSection
             /\ alertMsg' = alertMsg
             /\ \A f \in SummaryFields :
                   ~Has(raw, f) => ui'.resultsSummary[f] = [num |-> 0]
             /\ \A k \in DOMAIN TradesOf(raw) :
                   /\ \A f \in NumericTradeFields :
                         ~Has(raw.trades[k], f) =>
                             ui'.resultsTableBody[k][f] = [num |-> 0]
                   /\ ~Has(raw.trades[k], "outcome") =>
                         ui'.resultsTableBody[k].outcome = [text |-> "unknown"]]_vars

\* The part of C27 that holds: displaying an answer that lacks properties
\* does not fail; the results section is shown with a summary and a table
\* body and no error is alerted.
C27_DisplayNeverFails ==
    [][\A r \in DOMAIN runs : SucceedsNow(r) =>
          /\ runs'[r].status = "succeeded"
          /\ ui'.resultsSection
          /\ alertMsg' = alertMsg
          /\ ui'.resultsSummary = RenderSummary(runs'[r].response.payload)
          /\ Len(ui'.resultsTableBody) >= 1]_vars

\* C27 for the presenter of main.js, applied to the stored answer.
C27_LegacyDefaultsShown ==
    api.lastBacktestResults # NoResults =>
        LET raw == api.lastBacktestResults
            cards == LegacySummaryCards(raw)
            table == CreateTradesTable(TradesOf(raw))
        IN /\ \A f \in DOMAIN cards : ~Has(raw, f) => cards[f] = [num |-> 0]
           /\ \A k \in DOMAIN table.rows :
                 /\ \A f \in NumericTradeFields :
                       ~Has(raw.trades[k], f) => table.rows[k][f] = [num |-> 0]
                 /\ ~Has(raw.trades[k], "outcome") =>
                       table.rows[k].outcome = [text |-> "unknown"]

\* The answer whose only trade has no property is on display.
C27_Witness ==
    /\ api.lastBacktestResults = BareResult
    /\ ui.resultsSection
    /\ ui.resultsTableBody = <<TradeRow(EmptyObject)>>

\* A displayed hold-time cell is a number within the bounds.
CellWithin(cell, low, high) == Has(cell, "num") /\ cell.num >= low /\ cell.num <= high

\* C28: whatever hold times the server sent, every trade row on display
\* shows minutes_held within 0..45 and candles_held within 1..3.
C28_HoldTimesClamped ==
    \A k \in DOMAIN ui.resultsTableBody :
        ui.resultsTableBody[k] # NoTradesRow =>
            /\ CellWithin(ui.resultsTableBody[k].minutes_held, 0, MaxMinutesHeld)
            /\ CellWithin(ui.resultsTableBody[k].candles_held, 1, MaxCandlesHeld)

\* C28 for the table main.js's createTradesTable makes of the stored answer.
C28_LegacyHoldTimesClamped ==
    api.lastBacktestResults # NoResults =>
        LET table == CreateTradesTable(TradesOf(api.lastBacktestResults))
        IN \A k \in DOMAIN table.rows :
              /\ CellWithin(table.rows[k].minutes_held, 0, MaxMinutesHeld)
              /\ CellWithin(table.rows[k].candles_held, 1, MaxCandlesHeld)

\* What createTradesTable does guarantee: numbers no greater than 45 and 3,
\* and 0 minutes and 1 candle for a trade that has neither.
C28_LegacyUpperBounds ==
    api.lastBacktestResults # NoResults =>
        LET trades == TradesOf(api.lastBacktestResults)
            table == CreateTradesTable(trades)
        IN \A k \in DOMAIN table.rows :
              /\ Has(table.rows[k].minutes_held, "num")
              /\ table.rows[k].minutes_held.num <= MaxMinutesHeld
              /\ table.rows[k].candles_held.num <= MaxCandlesHeld
              /\ ~Has(trades[k], "minutes_held") => table.rows[k].minutes_held.num = 0
              /\ ~Has(trades[k], "candles_held") => table.rows[k].candles_held.num = 1

\* The answer with hold times of 600 minutes and 40 candles, and negative
\* ones, is on display.
C28_Witness ==
    /\ api.lastBacktestResults = OddResult
    /\ ui.resultsTableBody = RenderTradesTable(OddResult)
    /\ ui.resultsTableBody[3].minutes_held = [num |-> 600]
    /\ CreateTradesTable(OddResult.trades).rows[1].minutes_held = [num |-> -15]

\* C29: the table shows the first min(25, M) of the M trades of the answer
\* displayed, in the answer's order, and a truncation notice exactly when
\* M > 25.  UIHandler has no element for such a notice.
C29_TableTruncated ==
    [][\A r \in DOMAIN runs : SucceedsNow(r) =>
          LET trades == TradesOf(runs'[r].response.payload)
              shown == Min(DisplayLimit, Len(trades))
          IN trades # <<>> =>
               /\ Len(ui'.resultsTableBody) = shown
               /\ \A k \in 1..shown : ui'.resultsTableBody[k] = TradeRow(trades[k])]_vars

\* C29 for the table main.js's createTradesTable makes of the stored answer.
C29_LegacyTableTruncated ==
    api.lastBacktestResults # NoResults =>
        LET trades == TradesOf(api.lastBacktestResults)
            table == CreateTradesTable(trades)
        IN /\ Len(table.rows) = Min(25, Len(trades))
           /\ \A k \in DOMAIN table.rows : table.rows[k] = LegacyTradeRow(trades[k])
           /\ (table.indicator # NoIndicator) <=> Len(trades) > 25
           /\ Len(trades) > 25 => table.indicator = [shown |-> 25, total |-> Len(trades)]

\* The answer of MaxTrades trades is on display, every trade in a row.
C29_Witness ==
    /\ api.lastBacktestResults = ResultOf(MaxTrades)
    /\ Len(ui.resultsTableBody) = MaxTrades
    /\ ui.resultsTableBody[MaxTrades] = TradeRow(Trade(MaxTrades))
    /\ Len(CreateTradesTable(ResultOf(MaxTrades).trades).rows) = DisplayLimit

\* The catalog load of init has been issued: it is in flight or answered.
InitLoadIssued == initPc = "done" \/ \E l \in loads : l.init

\* C30: the health probe blocks nothing: whether it has succeeded, failed
\* or not yet answered, the catalog load of init has been issued, and the
\* start button follows the form whatever the probe said.
C30_ProbeNeverBlocks ==
    /\ InitLoadIssued
    /\ initPc = "done" => (dom.btnDisabled <=> ~IsValid(state, dom))

\* C30 for a probe that has answered: any answer, the error record of a
\* failed probe included, sets the indicator and issues the catalog load in
\* the same step, and once that load is answered the start button follows
\* the form.
C30_AnsweredProbeNeverBlocks ==
    /\ [][\A health \in ProbeAnswers : HealthDone(health) =>
             /\ \E l \in loads' : l.init
             /\ ui'.apiStatus = IF health.angel_one_connected THEN "Connected"
                                ELSE IF health.status = "error" THEN "Connection Error"
                                ELSE "Limited Mode"]_vars
    /\ [](initPc # "health" => InitLoadIssued)
    /\ [](initPc = "done" => (dom.btnDisabled <=> ~IsValid(state, dom)))

\* After a failed probe the catalog has loaded, a stock is selected and a
\* run is Running.
C30_Witness ==
    /\ ui.apiStatus = "Connection Error"
    /\ initPc = "done"
    /\ state.selectedStocks # <<>>
    /\ \E r \in DOMAIN runs : Running(r)

\* The probe has not answered, and a run is Running all the same: the
\* catalog came from a click on a sector tab.
C30_PendingProbeWitness ==
    /\ initPc = "health"
    /\ ~InitLoadIssued
    /\ \E r \in DOMAIN runs : Running(r)

\* The variant of the period the controller is in: the flag getDateRange and
\* updateStartButton branch on.
CustomActive == state.isCustomPeriod = TRUE

PresetActive == state.isCustomPeriod = FALSE

\* C31: exactly one period variant is active at any time: the controller is
\* in the preset variant or in the custom variant, never in both and never
\* in neither; a click on a preset card makes it Preset(months of the card),
\* a change of the check box makes it Custom when checked and Preset, with
\* the months it had, when unchecked; and the dates of a request come from
\* the active variant only: the two date fields for Custom, the clock and
\* the lookback of the preset for Preset, whatever the date fields hold.
C31_OneVariantActive ==
    /\ [](PresetActive # CustomActive)
    /\ [][\A months \in PresetMonths : PeriodCardClick(months) =>
             /\ ~state'.isCustomPeriod
             /\ state'.selectedPeriodMonths = months]_vars
    /\ [][\A checked \in BOOLEAN : CustomPeriodChange(checked) =>
             /\ state'.isCustomPeriod = checked
             /\ state'.selectedPeriodMonths = state.selectedPeriodMonths]_vars
    /\ [][\A today \in Todays : StartBacktest(today) =>
             IF CustomActive
             THEN /\ NewRequest.start_date = dom.startDate
                  /\ NewRequest.end_date = dom.endDate
             ELSE LET from == SetDateBack(today, DaysBack(state.selectedPeriodMonths))
                  IN /\ NewRequest.start_date = ToISODate(from.zone, from.day, from.hour)
                     /\ NewRequest.end_date = ToISODate(today.zone, today.day, today.hour)]_vars

\* A request has carried the custom dates; a later one, built after a click
\* on the preset of 3 months while the date fields still hold those dates,
\* carries the preset's range.
C31_Witness ==
    /\ Len(runs) = 2
    /\ runs[1].body.start_date = TodayDay - 1 /\ runs[1].body.end_date = TodayDay
    /\ PresetActive
    /\ state.selectedPeriodMonths = 3
    /\ dom.startDate = TodayDay - 1 /\ dom.endDate = TodayDay
    /\ runs[2].body.start_date = TodayDay - 90 /\ runs[2].body.end_date = TodayDay

\* The result on the page: the summary and the table of the results section.
Presented(u) == [summary |-> u.resultsSummary, table |-> u.resultsTableBody]

\* What displayResults presents of a payload.
PresentationOf(payload) ==
    [summary |-> RenderSummary(payload), table |-> RenderTradesTable(payload)]

\* C32: a run is superseded when a newer run starts: once no request is in
\* flight, and the run started last has succeeded, the stored and the
\* presented result are that run's; and the completion of a run never
\* changes the stored or presented result once a run started after it has
\* succeeded.
C32_LatestRunWins ==
    /\ []((runs # <<>> /\ RunningRuns = {} /\ runs[Len(runs)].status = "succeeded") =>
            /\ api.lastBacktestResults = runs[Len(runs)].response.payload
            /\ Presented(ui) = PresentationOf(runs[Len(runs)].response.payload))
    /\ [][\A r \in DOMAIN runs :
            (Completes(r) /\ \E newer \in DOMAIN runs :
                                newer > r /\ runs[newer].status = "succeeded") =>
            /\ api'.lastBacktestResults = api.lastBacktestResults
            /\ Presented(ui') = Presented(ui)]_vars

\* What the completion callbacks do: the run whose answer arrives last is
\* the one stored and presented, whenever it was started.
C32_LastAnswerWins ==
    [][\A r \in DOMAIN runs :
          (Completes(r) /\ runs'[r].status = "succeeded") =>
          /\ api'.lastBacktestResults = runs'[r].response.payload
          /\ Presented(ui') = PresentationOf(runs'[r].response.payload)
          /\ ui'.resultsSection]_vars

\* Two runs were in flight together and both have succeeded with different
\* results; the one stored and presented is the result of the older run.
C32_Witness ==
    /\ Len(runs) = 2
    /\ runs[1].status = "succeeded" /\ runs[2].status = "succeeded"
    /\ runs[1].response.payload # runs[2].response.payload
    /\ api.lastBacktestResults = runs[1].response.payload
    /\ Presented(ui) = PresentationOf(runs[1].response.payload)
    /\ runs[2].resultBefore = NoResults

\* The runs whose answer is the result now stored.
ProducersOfStored ==
    {r \in DOMAIN runs : /\ runs[r].status = "succeeded"
                         /\ runs[r].response.payload = api.lastBacktestResults}

\* C33: whenever the JSON export hands out a file, the strategy, the start
\* date and the end date in its name are those of the request of a run that
\* produced the exported result, also when a later run has failed or is
\* still in flight.
C33_NameOfProducingRequest ==
    [][(DownloadJSON /\ api.lastBacktestResults # NoResults) =>
          \E r \in ProducersOfStored :
              download'.filename = FileName(runs[r].body, ".json")]_vars

\* What downloadJSON does: the name is made of the request stored last,
\* that of the run started last, whether or not that run has an answer.
C33_NameOfLastStart ==
    [][(DownloadJSON /\ api.lastBacktestResults # NoResults) =>
          download'.filename = FileName(runs[Len(runs)].body, ".json")]_vars

\* The first run succeeded; the second, started after that for another
\* strategy and period, is in flight; the JSON export of the first run's
\* result carries the name of the second run's request.
C33_Witness ==
    /\ Len(runs) = 2
    /\ runs[1].status = "succeeded"
    /\ runs[2].status = "running"
    /\ runs[2].resultBefore = runs[1].response.payload
    /\ download.kind = "json"
    /\ download.data = JsonStringify(runs[1].response.payload)
    /\ download.filename = FileName(runs[2].body, ".json")
    /\ runs[1].body.strategy # runs[2].body.strategy
    /\ runs[1].body.start_date # runs[2].body.start_date

\* The symbols of a list of instruments.
SymbolsOf(stocks) == [k \in 1..Len(stocks) |-> stocks[k].symbol]

\* C34: once every catalog load in flight has been answered, the catalog and
\* the list on the page are those of the sector requested last, whatever
\* the order of the answers.
C34_LastRequestedSectorShown ==
    loads = {} /\ initPc = "done" =>
        /\ state.allStocks = CatalogResponse(SmallCatalog, ui.activeTab)
        /\ state.filteredStocks = state.allStocks
        /\ ui.stockList = SymbolsOf(CatalogResponse(SmallCatalog, ui.activeTab))

\* What loadStocks does: the answer of a load replaces the catalog and the
\* list with that load's sector, whichever loads were requested after it.
C34_LastAnswerShown ==
    [][\A l \in loads : LoadStocksOk(l, SmallCatalog) =>
          /\ state'.allStocks = CatalogResponse(SmallCatalog, l.sector)
          /\ state'.filteredStocks = state'.allStocks
          /\ ui'.stockList = SymbolsOf(state'.allStocks)]_vars

\* Init is done; two tabs were clicked after it, both loads have been
\* answered, and the page lists the sector of the tab clicked first.
C34_Witness ==
    /\ initPc = "done"
    /\ loadCount = 3
    /\ loads = {}
    /\ ui.activeTab = "pharma"
    /\ state.allStocks = CatalogResponse(SmallCatalog, "it")
    /\ ui.stockList = SymbolsOf(CatalogResponse(SmallCatalog, "it"))
    /\ CatalogResponse(SmallCatalog, "it") # CatalogResponse(SmallCatalog, "pharma")

\* C35: while a run is Running the progress section is displayed: the
\* timeout a completion or failure has set never hides the progress section
\* of a run started after it.
C35_ProgressVisibleWhileRunning == RunningRuns # {} => ui.progressSection

\* What holds of the progress section: a start displays it, and while a run
\* is Running only the timeout callback of hideProgress hides it.
C35_HiddenOnlyByTimeout ==
    /\ [][Len(runs') > Len(runs) => ui'.progressSection]_vars
    /\ [][(RunningRuns # {} /\ ui.progressSection /\ ~ui'.progressSection) =>
             HideTimeout]_vars

\* The first run succeeded; the second, started after that and before the
\* timeout of the first run's hideProgress fired, is Running with its
\* progress section hidden and its ticker still active.
C35_Witness ==
    /\ Len(runs) = 2
    /\ runs[1].status = "succeeded"
    /\ runs[2].status = "running"
    /\ runs[2].resultBefore = runs[1].response.payload
    /\ ~ui.progressSection
    /\ ui.pendingHides = 0
    /\ ui.tickers[runs[2].ticker].active

\* The ticks an interval whose progress value is progress can still fire:
\* every tick adds MinIncrement points or more.
TicksLeft(progress) == (ProgressCap - progress + MinIncrement - 1) \div MinIncrement

\* C36: the progress ticker ends on its own, whether or not the request is
\* ever answered: an interval starts at 0, which leaves it at most 19 ticks;
\* every tick takes at least one from the ticks it has left; the interval is
\* cancelled in the tick that brings the progress value to 95; and an
\* interval that is cancelled never fires again.
C36_TickerTerminates ==
    /\ TicksLeft(0) = 19
    /\ [](\A t \in DOMAIN ui.tickers :
            /\ ui.tickers[t].active => TicksLeft(ui.tickers[t].progress) >= 1
            /\ TicksLeft(ui.tickers[t].progress) = 0 => ~ui.tickers[t].active)
    /\ [][\A t \in DOMAIN ui'.tickers :
            t \notin DOMAIN ui.tickers => ui'.tickers[t].progress = 0]_vars
    /\ [][\A t \in DOMAIN ui.tickers : \A inc \in Increments :
            Tick(t, inc) =>
               /\ TicksLeft(ui'.tickers[t].progress) <= TicksLeft(ui.tickers[t].progress) - 1
               /\ ui'.tickers[t].progress >= ProgressCap => ~ui'.tickers[t].active]_vars
    /\ [][\A t \in DOMAIN ui.tickers :
            ~ui.tickers[t].active => ui'.tickers[t] = ui.tickers[t]]_vars

\* The request of the only run is still unanswered; its ticker has reached
\* 95 and cancelled itself, and the bar shows 95 and the last message.
C36_Witness ==
    /\ Len(runs) = 1
    /\ Running(1)
    /\ ui.tickers[runs[1].ticker] = [progress |-> ProgressCap, active |-> FALSE]
    /\ ui.progressFill = ProgressCap
    /\ ui.progressText = "Preparing report..."
    /\ ui.pendingHides = 0
    /\ ~ENABLED (\E inc \in Increments : Tick(runs[1].ticker, inc))

\* C37: from the start of a run to its completion the progress value on
\* display never goes down: no tick and no other callback lowers the width
\* of the progress bar while a run is Running.
C37_DisplayedProgressMonotone ==
    [][RunningRuns # {} => ui'.progressFill >= ui.progressFill]_vars

\* What holds of the progress values: the value an interval keeps never goes
\* down, and neither does the bar for as long as the first run is the only
\* run started.
C37_TickerValueMonotone ==
    /\ [][\A t \in DOMAIN ui.tickers :
            ui'.tickers[t].progress >= ui.tickers[t].progress]_vars
    /\ [][Len(runs') <= 1 => ui'.progressFill >= ui.progressFill]_vars

\* The first run succeeded and left the bar at 100; the second run, started
\* after that, is Running and a tick of its interval has set the bar to the
\* interval's value.
C37_Witness ==
    /\ Len(runs) = 2
    /\ runs[1].status = "succeeded"
    /\ Running(2)
    /\ runs[2].resultBefore = runs[1].response.payload
    /\ ~ui.tickers[runs[1].ticker].active
    /\ ui.tickers[runs[1].ticker].progress = 0
    /\ ui.tickers[runs[2].ticker].progress = MinIncrement
    /\ ui.progressFill = MinIncrement

\* A request the backend can run: some stocks, a target and a stop loss
\* above zero, both dates present and the start date before the end date.
WellFormed(req) ==
    /\ Len(req.stocks) >= 1
    /\ ~req.target_percent.nan /\ req.target_percent.v > 0
    /\ ~req.stop_loss_percent.nan /\ req.stop_loss_percent.v > 0
    /\ req.start_date # NoDate
    /\ req.end_date # NoDate
    /\ req.start_date < req.end_date

C38_LegacyGate ==
    LegacyIsValid(state, dom) => WellFormed(BuildParams(state, dom, Noon))

PresetRange(months, today) ==
    LET from == SetDateBack(today, DaysBack(months))
    IN [start_date |-> ToISODate(from.zone, from.day, from.hour),
        end_date |-> ToISODate(today.zone, today.day, today.hour)]

\* C39: checking and then unchecking the custom-period box leaves the preset
\* as it was: the month count is not changed by the box nor by anything done
\* while the custom period is on; after the box is unchecked the controller
\* is in the preset variant with that month count, the period is valid (the
\* button is enabled whenever the selection and the two parameters are
\* valid), and a request built then carries the preset's lookback from the
\* clock, whatever the date fields hold.
C39_UncheckRestoresPreset ==
    /\ [][(state.isCustomPeriod /\ state'.isCustomPeriod) =>
             state'.selectedPeriodMonths = state.selectedPeriodMonths]_vars
    /\ [][(state.isCustomPeriod /\ CustomPeriodChange(FALSE)) =>
             /\ ~state'.isCustomPeriod
             /\ state'.selectedPeriodMonths = state.selectedPeriodMonths
             /\ state'.selectedPeriodMonths > 0
             /\ dom'.btnDisabled <=>
                   ~(/\ state'.selectedStocks # <<>>
                     /\ GreaterThanZero(ParseFloat(dom'.targetPercent))
                     /\ GreaterThanZero(ParseFloat(dom'.stopLossPercent)))
             /\ \A today \in Todays :
                   LET req == BuildParams(state', dom', today)
                       range == PresetRange(state.selectedPeriodMonths, today)
                   IN /\ req.start_date = range.start_date
                      /\ req.end_date = range.end_date]_vars
    /\ [][\A today \in Todays :
             (StartBacktest(today) /\ ~state.isCustomPeriod) =>
                /\ NewRequest.start_date =
                      PresetRange(state.selectedPeriodMonths, today).start_date
                /\ NewRequest.end_date =
                      PresetRange(state.selectedPeriodMonths, today).end_date]_vars

\* The box has been checked, two dates entered and the box unchecked (the
\* card of 6 months was clicked before); the request built after that
\* carries the range of 6 months, not the dates in the fields.
C39_Witness ==
    /\ ~state.isCustomPeriod
    /\ state.selectedPeriodMonths = 6
    /\ dom.startDate = TodayDay - 1 /\ dom.endDate = TodayDay
    /\ ~dom.btnDisabled
    /\ Len(runs) = 1
    /\ runs[1].body.start_date = TodayDay - 180
    /\ runs[1].body.end_date = TodayDay

\* The last value handed to onUpdate.
LastUpdate(p) == p.updates[Len(p.updates)]

\* Polling is over: no status request in flight and no timeout pending.
PollingOver(p) == p.called /\ p.inFlight = 0 /\ p.timers = <<>>

\* C40: pollBacktestStatus has one status request in flight at a time and
\* calls onUpdate once for every answer, with that answer; it sets a timeout
\* for a further poll only when the answer just reported says running; once
\* an answer says anything else polling is over for good; and when a status
\* request fails it reports a failed status once and polling is over.
C40_PollingContract ==
    /\ [](poll.inFlight <= 1 /\ Len(poll.timers) + poll.inFlight <= 1)
    /\ [][\A answer \in StatusAnswers, threw \in BOOLEAN :
            PollAnswer(answer, threw) =>
               /\ poll'.updates = Append(poll.updates, answer)
               /\ ReportsRunning(answer) \/ PollingOver(poll')]_vars
    /\ [][Len(poll'.timers) > Len(poll.timers) =>
             /\ poll'.inFlight = 0
             /\ ReportsRunning(LastUpdate(poll'))]_vars
    /\ [][PollingOver(poll) => poll' = poll]_vars
    /\ [][\A message \in RequestErrors :
            PollRequestFails(message) =>
               /\ poll'.updates = Append(poll.updates, FailedUpdate(message))
               /\ poll'.requests = poll.requests
               /\ PollingOver(poll')]_vars

\* What poll does: C40 but for the calls of onUpdate per answer.  An answer
\* that is an object, handed to an onUpdate that returns, is reported once;
\* a null answer, and any answer on which onUpdate throws, is followed by a
\* second call, with a failed status, and ends the polling even when the
\* answer said running.
C40_PollingAsCoded ==
    /\ [](poll.inFlight <= 1 /\ Len(poll.timers) + poll.inFlight <= 1)
    /\ [][\A answer \in StatusAnswers, threw \in BOOLEAN :
            PollAnswer(answer, threw) =>
               IF threw \/ answer = NullBody
               THEN /\ Len(poll'.updates) = Len(poll.updates) + 2
                    /\ poll'.updates[Len(poll.updates) + 1] = answer
                    /\ LastUpdate(poll').status = "failed"
                    /\ PollingOver(poll')
               ELSE /\ poll'.updates = Append(poll.updates, answer)
                    /\ ReportsRunning(answer) \/ PollingOver(poll')]_vars
    /\ [][Len(poll'.timers) > Len(poll.timers) =>
             /\ poll'.inFlight = 0
             /\ ReportsRunning(LastUpdate(poll'))]_vars
    /\ [][PollingOver(poll) => poll' = poll]_vars
    /\ [][\A message \in RequestErrors :
            PollRequestFails(message) =>
               /\ poll'.updates = Append(poll.updates, FailedUpdate(message))
               /\ poll'.requests = poll.requests
               /\ PollingOver(poll')]_vars

\* Two status requests were made; the first answer said running, the second
\* was null: onUpdate has been called three times, last with a failed
\* status, and polling is over.
C40_Witness ==
    /\ poll.requests = 2
    /\ Len(poll.updates) = 3
    /\ ReportsRunning(poll.updates[1])
    /\ poll.updates[2] = NullBody
    /\ poll.updates[3].status = "failed"
    /\ PollingOver(poll)

=========================================================================
